---- MODULE Spec2Model ----
(***************************************************************************)
(* State-machine model of the Gitea launcher extension: the paginated      *)
(* fetcher (lib/gitea-api fetchPaged), repository discovery               *)
(* (fetchAllRepos), the pull-request inbox resolver                        *)
(* (fetchPullRequestInbox with mapWithConcurrency) and the cache-gated     *)
(* refresh handlers of the two list commands (refreshInbox, refreshRepos). *)
(*                                                                         *)
(* Every network call is an await: the request is logged when the code     *)
(* issues it and a separate step delivers the server's response, so that   *)
(* overlapping calls interleave exactly as the promises of the code can.   *)
(***************************************************************************)
EXTENDS Integers, Sequences, FiniteSets, TLC

VARIABLES
  net,        \* log of the HTTP requests issued so far, in issue order
  pg,         \* SpecPaged: the fetchPaged call under test
  pgSeen,     \* SpecPaged: the responses that call has received, in order
  srv,        \* the family of servers the run is played against
  fr,         \* the fetchAllRepos call
  frSeen,     \* the responses that call has received, in order
  ib,         \* the fetchPullRequestInbox call
  gl,         \* its two global fetchPaged calls, by endpoint
  glSeen,     \* the responses each global call has received, in order
  mc,         \* its mapWithConcurrency call: items, nextIndex, results
  wk,         \* the workers of that call, by the index each one holds
  scans,      \* how the pull-request fetch of each repository index ended
  cfg,        \* the command that runs and its effective preferences
  cache,      \* the command's cache in LocalStorage
  now,        \* what Date.now() reads
  ticks,      \* how many times the clock has been seen to advance
  view,       \* the state of the command's view
  rfs,        \* the calls of the refresh callback in progress or last made
  ev,         \* the evaluation of a pure function: its inputs and its result
  en          \* the run of the inbox view's commit-status enrichment effect

pagedVars == <<pg, pgSeen>>
reposVars == <<fr, frSeen>>
inboxVars == <<ib, gl, glSeen, mc, wk, scans>>
refreshVars == <<cfg, cache, now, ticks, view, rfs>>
extraVars == <<ev, en>>
vars == <<net, srv, pagedVars, reposVars, inboxVars, refreshVars, extraVars>>

(***************************************************************************)
(* Bounds of the model                                                     *)
(***************************************************************************)
\* upper bound on the page index a server lets a collection reach
MaxPages == 3
\* upper bound on the page index of one source of fetchAllRepos
MaxRepoPages == 2
\* upper bound on the number of repositories the fallback scan walks
MaxRepos == 7
\* upper bound on the number of pull-request fetches a server fails in a scan
MaxFailures == 2

(***************************************************************************)
(* Program constants                                                       *)
(***************************************************************************)
PER_PAGE == 100

(***************************************************************************)
(* HTTP responses.  status is the HTTP status (0: the fetch itself threw), *)
(* text the body text of an error response, jsonOk whether the body parses *)
(* as JSON, isArray whether the parsed body is an array, body its items.   *)
(***************************************************************************)
Response(status, statusText, text, jsonOk, isArray, body, total) ==
  [status |-> status, statusText |-> statusText, text |-> text,
   jsonOk |-> jsonOk, isArray |-> isArray, body |-> body, total |-> total]

\* total_count absent from a search response
NoTotal == -1

OkArray(items)  == Response(200, "OK", "", TRUE, TRUE, items, NoTotal)
OkNotArray      == Response(200, "OK", "", TRUE, FALSE, <<>>, NoTotal)
OkBadJson       == Response(200, "OK", "", FALSE, FALSE, <<>>, NoTotal)
HttpError(s, st, text) == Response(s, st, text, TRUE, FALSE, <<>>, NoTotal)
NetworkFailure  == Response(0, "", "", FALSE, FALSE, <<>>, NoTotal)

\* fetch() rejects instead of resolving
Threw(r) == r.status = 0
\* every response that arrives counts as a success
OkAnyStatus(r) == r.status # 0
\* response.ok
Ok(r) == r.status \in 200..299

(***************************************************************************)
(* Errors                                                                  *)
(***************************************************************************)
\* Errors are [type, status, msgStatus, detail, url]: status is the status
\* property (0: the error has none), msgStatus and detail are the status and
\* the text interpolated into the message, url is the url property.
\* Path segments (owner, name) are numbers, 0 standing for the empty string.
NoUrl == [ep |-> "", owner |-> 0, name |-> 0, limit |-> 0, page |-> 0, token |-> ""]
NoError ==
  [type |-> "none", status |-> 0, msgStatus |-> 0, detail |-> "", url |-> NoUrl]
\* the TypeError fetch() rejects with
FetchFailed ==
  [type |-> "TypeError", status |-> 0, msgStatus |-> 0, detail |-> "fetch failed",
   url |-> NoUrl]
\* the SyntaxError response.json() rejects with
JsonFailed ==
  [type |-> "SyntaxError", status |-> 0, msgStatus |-> 0, detail |-> "invalid json",
   url |-> NoUrl]

\* new GiteaApiError(status, `Gitea API error (${status}): ${message}`, url)
GiteaApiError(status, message, url) ==
  [type |-> "GiteaApiError", status |-> status, msgStatus |-> status,
   detail |-> message, url |-> url]

\* new Error(`Gitea API error (${status}): ${message}`)
PlainApiError(status, message) ==
  [type |-> "Error", status |-> 0, msgStatus |-> status, detail |-> message,
   url |-> NoUrl]

(***************************************************************************)
(* fetchPaged                                                              *)
(***************************************************************************)
Endpoint(ep, owner, name) == [ep |-> ep, owner |-> owner, name |-> name]

\* apiUrl: the collection URL with limit, page and (when given) token set
ApiUrl(url, page, accessToken) ==
  [ep |-> url.ep, owner |-> url.owner, name |-> url.name,
   limit |-> PER_PAGE, page |-> page, token |-> accessToken]

\* the request of the page after the current one
PagedRequestAhead(c) ==
  [url |-> ApiUrl(c.url, c.page + 1, c.token), auth |-> c.token]

\* the request fetchPaged issues for its current page
PagedRequest(c) ==
  [url |-> ApiUrl(c.url, c.page, c.token), auth |-> c.token]

\* state of a call right after `let page = 1`, before its first fetch
fetchPagedStart(url, accessToken) ==
  [url |-> url, token |-> accessToken, page |-> 1, items |-> <<>>,
   pc |-> "await", error |-> NoError]

\* data.length < PER_PAGE, with the comparison off by one
IsLastPageInclusive(data) == Len(data) <= PER_PAGE

\* data.length < PER_PAGE: the page just appended was the last one
IsLastPage(data) == Len(data) < PER_PAGE

\* !Array.isArray(data) || data.length === 0
NoData(r) == ~r.isArray \/ Len(r.body) = 0

\* one turn of the while loop: from the settled fetch of the current page
\* to the next fetch, the return or the throw
fetchPagedBody(c, r) ==
  IF Threw(r) THEN [c EXCEPT !.pc = "rejected", !.error = FetchFailed]
  ELSE IF ~Ok(r) THEN
    [c EXCEPT !.pc = "rejected",
              !.error = GiteaApiError(r.status,
                                      IF r.text # "" THEN r.text ELSE r.statusText,
                                      ApiUrl(c.url, c.page, c.token))]
  ELSE IF ~r.jsonOk THEN [c EXCEPT !.pc = "rejected", !.error = JsonFailed]
  ELSE IF NoData(r) THEN [c EXCEPT !.pc = "returned"]
  ELSE IF IsLastPage(r.body)
    THEN [c EXCEPT !.items = c.items \o r.body, !.pc = "returned"]
    ELSE [c EXCEPT !.items = c.items \o r.body, !.page = c.page + 1]

\* no fetchPaged call has been made
fetchPagedIdle ==
  [url |-> Endpoint("", 0, 0), token |-> "", page |-> 0, items |-> <<>>,
   pc |-> "idle", error |-> NoError]

(***************************************************************************)
(* fetchCurrentUser                                                        *)
(***************************************************************************)
\* what fetchCurrentUser resolves to: null, or the parsed user object
NullUser == [null |-> TRUE, id |-> 0, login |-> ""]
User(id, login) == [null |-> FALSE, id |-> id, login |-> login]

\* a /user answer carries the user object as its one body item; an empty
\* body stands for the JSON value null
OkUser(u) == Response(200, "OK", "", TRUE, FALSE, <<u>>, NoTotal)
OkNull    == Response(200, "OK", "", TRUE, FALSE, <<>>, NoTotal)

CurrentUserRequest(accessToken) ==
  [url |-> [ep |-> "user", owner |-> 0, name |-> 0, limit |-> 0, page |-> 0,
            token |-> ""],
   auth |-> accessToken]

\* a user is made up when the request does not deliver one
fetchCurrentUserResultNeverNull(r) ==
  IF Threw(r) \/ ~Ok(r) \/ ~r.jsonOk \/ r.body = <<>> THEN User(0, "") ELSE r.body[1]

\* try { ...; if (!response.ok) return null; return await response.json() }
\* catch { return null }
fetchCurrentUserResult(r) ==
  IF Threw(r) \/ ~Ok(r) \/ ~r.jsonOk \/ r.body = <<>> THEN NullUser ELSE r.body[1]

(***************************************************************************)
(* mapWithConcurrency, with the callback fetchPullRequestInbox gives it    *)
(***************************************************************************)
\* the concurrency fetchPullRequestInbox asks for
Concurrency == 6

\* one worker per item, whatever the concurrency
PoolSizePerItem(n, concurrency) == n

\* Array.from({ length: Math.max(1, concurrency) }, () => worker())
PoolSize(n, concurrency) == IF concurrency > 1 THEN concurrency ELSE 1

\* A pull request: user is the author's login ("" when the object has no
\* user), requested_reviewers the reviewers' logins (empty when absent).
PR(id, login, reviewers) ==
  [id |-> id, user |-> login, requested_reviewers |-> reviewers]

\* const [owner, name] = repo.full_name.split("/"); !(!owner || !name)
SplitOk(repo) ==
  /\ Len(repo.full_name) >= 2
  /\ repo.full_name[1] # 0
  /\ repo.full_name[2] # 0

\* `${apiBase}/api/v1/repos/${owner}/${name}/pulls?state=open`
PullsUrl(repo) == Endpoint("repos/pulls", repo.full_name[1], repo.full_name[2])

EmptyPartition == [set |-> TRUE, created |-> <<>>, reviewRequested |-> <<>>]
\* a slot of `new Array(items.length)` not yet assigned
Hole == [set |-> FALSE, created |-> <<>>, reviewRequested |-> <<>>]

\* the author filter comparing against the wrong side: every pull request
\* that has an author
IsAuthorAny(pr, login) == pr.user # ""

\* pr.user?.login === currentUser.login
IsAuthor(pr, login) == pr.user = login

\* pr.requested_reviewers?.some((r) => r.login === currentUser.login)
IsReviewer(pr, login) ==
  \E k \in 1..Len(pr.requested_reviewers) : pr.requested_reviewers[k] = login

\* { created: pulls.filter(...), reviewRequested: pulls.filter(...) }
Partition(pulls, login) ==
  [set |-> TRUE,
   created |-> SelectSeq(pulls, LAMBDA pr : IsAuthor(pr, login)),
   reviewRequested |-> SelectSeq(pulls, LAMBDA pr : IsReviewer(pr, login))]

NoScan == [end |-> "none", items |-> <<>>]

\* A scan state S gathers what the workers share: items, nextIndex, results,
\* the requests reqs issued in this step, the callback's perRepoFailures
\* counter and the record scans of how each fetch ended.  A worker has no
\* state of its own but the index idx it holds, so S.wk maps each index held
\* by a worker to where that worker waits, and S.live counts the workers that
\* have not returned.

\* a failed fetch that leaves perRepoFailures alone
CountFailureNot(failures) == failures

\* perRepoFailures += 1
CountFailure(failures) == failures + 1

\* the worker holding index idx lets go of it
Release(held, idx) == [k \in DOMAIN held \ {idx} |-> held[k]]

\* const idx = nextIndex++; if (idx >= items.length) return;
\* results[idx] = await fn(items[idx], idx): a worker runs to its next await.
\* fn returns at once for a full_name that does not split, and otherwise
\* starts fetchPaged on the repository's pulls.
WorkerClaim(S, accessToken) ==
  LET idx == S.nextIndex
      T == [S EXCEPT !.nextIndex = idx + 1]
  IN  IF idx >= Len(S.items)
        THEN [T EXCEPT !.live = S.live - 1]
      ELSE IF ~SplitOk(S.items[idx + 1])
        THEN [T EXCEPT !.wk = (idx :> [pc |-> "resume", call |-> fetchPagedIdle]) @@ S.wk]
      ELSE
        LET c == fetchPagedStart(PullsUrl(S.items[idx + 1]), accessToken) IN
          [T EXCEPT !.wk = (idx :> [pc |-> "fetch", call |-> c]) @@ S.wk,
                    !.reqs = Append(S.reqs, PagedRequest(c))]

\* the workers are created one after the other, each running to its first
\* await; k of them are still to be created
RECURSIVE SpawnWorkers(_, _, _)
SpawnWorkers(S, k, accessToken) ==
  IF k = 0 THEN S
  ELSE SpawnWorkers(WorkerClaim(S, accessToken), k - 1, accessToken)

\* mapWithConcurrency(items, concurrency, fn) up to the first await of
\* every worker
mapWithConcurrencyStart(items, concurrency, accessToken) ==
  LET n == Len(items)
      size == PoolSize(n, concurrency)
      S == [items |-> items, nextIndex |-> 0,
            results |-> [k \in 0..(n - 1) |-> Hole],
            wk |-> <<>>, live |-> size,
            reqs |-> <<>>, failures |-> 0,
            scans |-> [k \in 0..(n - 1) |-> NoScan]]
  IN  SpawnWorkers(S, size, accessToken)

\* the fetch awaited by the worker holding idx settles with response r:
\* fetchPaged runs on; when it returns or throws, the callback yields its
\* partition and the worker stores it and claims the next index
WorkerSettle(S, idx, r, login, accessToken) ==
  LET c == fetchPagedBody(S.wk[idx].call, r) IN
    CASE c.pc = "await" ->
           [S EXCEPT !.wk[idx].call = c, !.reqs = Append(S.reqs, PagedRequest(c))]
      [] c.pc = "returned" ->
           WorkerClaim([S EXCEPT !.results[idx] = Partition(c.items, login),
                                 !.scans[idx] = [end |-> "returned", items |-> c.items],
                                 !.wk = Release(S.wk, idx)],
                       accessToken)
      [] c.pc = "rejected" ->
           WorkerClaim([S EXCEPT !.results[idx] = EmptyPartition,
                                 !.failures = CountFailure(S.failures),
                                 !.scans[idx] = [end |-> "rejected", items |-> c.items],
                                 !.wk = Release(S.wk, idx)],
                       accessToken)

\* the worker holding idx resumes from awaiting a callback that returned
\* without fetching
WorkerResume(S, idx, accessToken) ==
  WorkerClaim([S EXCEPT !.results[idx] = EmptyPartition,
                        !.scans[idx] = [end |-> "skipped", items |-> <<>>],
                        !.wk = Release(S.wk, idx)],
              accessToken)

\* perRepo.flatMap((r) => r.created), over indexes k..n-1
RECURSIVE FlatCreated(_, _, _)
FlatCreated(results, k, n) ==
  IF k >= n THEN <<>> ELSE results[k].created \o FlatCreated(results, k + 1, n)

\* perRepo.flatMap((r) => r.reviewRequested), over indexes k..n-1
RECURSIVE FlatReview(_, _, _)
FlatReview(results, k, n) ==
  IF k >= n THEN <<>> ELSE results[k].reviewRequested \o FlatReview(results, k + 1, n)

(***************************************************************************)
(* fetchPullRequestInbox                                                   *)
(***************************************************************************)
\* dbg as first built: the optional fields are undefined (-1, "undefined")
DebugStart ==
  [usedGlobalEndpoints |-> "undefined", fallbackUsed |-> "undefined",
   createdCount |-> -1, reviewRequestedCount |-> -1, currentUser |-> "",
   repoCount |-> -1, perRepoFailures |-> -1, errors |-> <<>>, finished |-> FALSE]

\* { stage, ...toDebugError(err) }
DebugError(stage, err) ==
  [stage |-> stage, type |-> err.type, status |-> err.status,
   msgStatus |-> err.msgStatus, detail |-> err.detail, url |-> err.url]

\* new Error("Could not determine current user. Check your access token.")
IdentityError ==
  [type |-> "Error", status |-> 0, msgStatus |-> 0,
   detail |-> "Could not determine current user", url |-> NoUrl]

inboxIdle ==
  [pc |-> "idle", token |-> "", currentUser |-> NullUser, dbg |-> DebugStart,
   created |-> <<>>, reviewRequested |-> <<>>, error |-> NoError,
   errorDebug |-> FALSE, userSeen |-> <<>>]

CreatedUrl == Endpoint("pulls/created", 0, 0)
ReviewRequestedUrl == Endpoint("pulls/requested_review", 0, 0)

Settled(c) == c.pc \in {"returned", "rejected"}

\* the fallback test taking any rejection for a missing endpoint
IsNotFoundAnyError(c) == c.pc = "rejected"

\* status === "rejected" && reason instanceof GiteaApiError
\*   && reason.status === 404
IsNotFound(c) ==
  /\ c.pc = "rejected"
  /\ c.error.type = "GiteaApiError"
  /\ c.error.status = 404

any404(createdResult, reviewResult) ==
  IsNotFound(createdResult) \/ IsNotFound(reviewResult)

\* the global branch throwing the review failure ahead of the created one
GlobalThrownReviewFirst(createdResult, reviewResult) ==
  IF reviewResult.pc = "rejected" THEN "review"
  ELSE IF createdResult.pc = "rejected" THEN "created"
  ELSE "none"

\* which rejection the global branch throws: the created one is tested first
GlobalThrown(createdResult, reviewResult) ==
  IF createdResult.pc = "rejected" THEN "created"
  ELSE IF reviewResult.pc = "rejected" THEN "review"
  ELSE "none"

\* the fallback branch keeping the created list when its global fetch was
\* fulfilled
ScanCreatedOrGlobal(createdResult, results, n) ==
  IF createdResult.pc = "returned" THEN createdResult.items
  ELSE FlatCreated(results, 0, n)

\* const created = perRepo.flatMap((r) => r.created)
ScanCreated(createdResult, results, n) == FlatCreated(results, 0, n)

\* const reviewRequested = perRepo.flatMap((r) => r.reviewRequested)
ScanReview(reviewResult, results, n) == FlatReview(results, 0, n)

\* from Promise.allSettled settling to the return, the throw or the
\* fetchCurrentUser call
inboxAfterGlobal(i, createdResult, reviewResult) ==
  IF ~any404(createdResult, reviewResult) THEN
    LET d == [i.dbg EXCEPT !.usedGlobalEndpoints = "true", !.fallbackUsed = "false"]
        thrown == GlobalThrown(createdResult, reviewResult)
    IN  CASE thrown = "created" ->
               [i EXCEPT !.pc = "rejected", !.error = createdResult.error,
                         !.errorDebug = TRUE,
                         !.dbg = [d EXCEPT !.errors =
                                    Append(d.errors,
                                           DebugError("global_created",
                                                      createdResult.error))]]
          [] thrown = "review" ->
               [i EXCEPT !.pc = "rejected", !.error = reviewResult.error,
                         !.errorDebug = TRUE,
                         !.dbg = [d EXCEPT !.errors =
                                    Append(d.errors,
                                           DebugError("global_review_requested",
                                                      reviewResult.error))]]
          [] OTHER ->
               [i EXCEPT !.pc = "returned",
                         !.created = createdResult.items,
                         !.reviewRequested = reviewResult.items,
                         !.dbg = [d EXCEPT !.createdCount = Len(createdResult.items),
                                           !.reviewRequestedCount = Len(reviewResult.items),
                                           !.finished = TRUE]]
  ELSE
    LET e1 == IF createdResult.pc = "rejected"
                THEN <<DebugError("global_created", createdResult.error)>> ELSE <<>>
        e2 == IF reviewResult.pc = "rejected"
                THEN <<DebugError("global_review_requested", reviewResult.error)>>
                ELSE <<>>
    IN  [i EXCEPT !.pc = "user",
                  !.dbg = [i.dbg EXCEPT !.usedGlobalEndpoints = "false",
                                        !.fallbackUsed = "true",
                                        !.errors = i.dbg.errors \o e1 \o e2]]

\* from fetchCurrentUser settling to the throw or the fetchAllRepos call
inboxAfterUser(i, user) ==
  IF user.null THEN
    [i EXCEPT !.pc = "rejected", !.error = IdentityError, !.errorDebug = TRUE,
              !.dbg = [i.dbg EXCEPT !.errors =
                         Append(i.dbg.errors, DebugError("current_user", IdentityError))]]
  ELSE
    [i EXCEPT !.pc = "repos", !.currentUser = user,
              !.dbg = [i.dbg EXCEPT !.currentUser = user.login]]

\* from fetchAllRepos settling to the mapWithConcurrency call; a rejection
\* of fetchAllRepos is not caught
inboxAfterRepos(i, f) ==
  IF f.phase = "rejected"
    THEN [i EXCEPT !.pc = "rejected", !.error = f.error, !.errorDebug = FALSE]
    ELSE [i EXCEPT !.pc = "scan", !.dbg = [i.dbg EXCEPT !.repoCount = Len(f.repos)]]

\* from mapWithConcurrency resolving to the return
inboxAfterScan(i, createdResult, reviewResult, results, n, perRepoFailures) ==
  LET created == ScanCreated(createdResult, results, n)
      reviewRequested == ScanReview(reviewResult, results, n)
  IN  [i EXCEPT !.pc = "returned",
                !.created = created,
                !.reviewRequested = reviewRequested,
                !.dbg = [i.dbg EXCEPT !.perRepoFailures = perRepoFailures,
                                      !.createdCount = Len(created),
                                      !.reviewRequestedCount = Len(reviewRequested),
                                      !.finished = TRUE]]

mapIdle ==
  [items |-> <<>>, nextIndex |-> 0, results |-> <<>>, failures |-> 0, live |-> 0]

\* no fetchPullRequestInbox call has been made
InboxIdle ==
  /\ ib = inboxIdle
  /\ gl = [ep \in {"created", "review"} |-> fetchPagedIdle]
  /\ glSeen = [ep \in {"created", "review"} |-> <<>>]
  /\ mc = mapIdle
  /\ wk = <<>>
  /\ scans = <<>>

(***************************************************************************)
(* The server side of one paginated collection.  A server may answer a     *)
(* page with any number of items (it may ignore limit), with a body that   *)
(* is no array or no JSON, with an error status, or not at all.  Page      *)
(* MaxPages is the last page a collection has.                             *)
(***************************************************************************)
PageItems(p, n) == [i \in 1..n |-> p * 1000 + i]

PageSizes(p) ==
  IF p < MaxPages THEN {0, 1, PER_PAGE - 1, PER_PAGE, PER_PAGE + 1}
  ELSE {0, 1, PER_PAGE - 1}

ErrorResponses ==
  { HttpError(404, "Not Found", "404 page not found"),
    HttpError(500, "Internal Server Error", ""),
    NetworkFailure }

PagedResponses(p) ==
  { OkArray(PageItems(p, n)) : n \in PageSizes(p) }
    \cup {OkNotArray, OkBadJson} \cup ErrorResponses

Tokens == {"", "tok-abcdefgh-1234"}
PagedUrls == {Endpoint("pulls/created", 0, 0), Endpoint("pulls", 1, 1)}

(***************************************************************************)
(* fetchAllRepos                                                           *)
(***************************************************************************)
\* A repository object.  full_name is its list of "/"-separated segments;
\* copy tells apart the objects different responses carry for one id.
Repo(id, copy) == [id |-> id, full_name |-> <<1, id>>, copy |-> copy]
\* a repository object whose full_name has no "/"
BareRepo(id, copy) == [id |-> id, full_name |-> <<id>>, copy |-> copy]

\* An organization object; 0 is an absent or empty field.
Org(username, name) == [username |-> username, name |-> name]

\* org.username || org.name
OrgName(org) == IF org.username # 0 THEN org.username ELSE org.name

fetchAllReposIdle ==
  [token |-> "", phase |-> "idle", page |-> 0, prevCount |-> 0, repos |-> <<>>,
   seenIds |-> {}, allOrgs |-> <<>>, orgIdx |-> 0, error |-> NoError]

\* state of a call at its first fetch: repos = [], seenIds = {}, page = 1
fetchAllReposStart(accessToken) ==
  [fetchAllReposIdle EXCEPT !.token = accessToken, !.phase = "search", !.page = 1]

\* the seenIds test of the loop body, left out
IsNewAlways(f, data, i) == TRUE

\* !seenIds.has(repo.id) at the turn of the for loop that handles data[i]:
\* seenIds then holds the ids seen before the page and in data[1..i-1]
IsNew(f, data, i) ==
  data[i].id \notin (f.seenIds \cup {data[j].id : j \in 1..(i - 1)})

\* the items of data the loop pushes, in order
Pushed(f, data) ==
  LET indexed == [i \in 1..Len(data) |-> [i |-> i, repo |-> data[i]]]
      kept == SelectSeq(indexed, LAMBDA e : IsNew(f, data, e.i))
  IN  [k \in 1..Len(kept) |-> kept[k].repo]

\* the for loop with a later copy of an id replacing the one already held
AddReposOverwrite(f, data) ==
  LET held == [k \in 1..Len(f.repos) |->
                 IF \E i \in 1..Len(data) : data[i].id = f.repos[k].id
                   THEN data[CHOOSE i \in 1..Len(data) : data[i].id = f.repos[k].id]
                   ELSE f.repos[k]]
  IN  [f EXCEPT !.seenIds = f.seenIds \cup {data[i].id : i \in 1..Len(data)},
                !.repos = held \o Pushed(f, data)]

\* for (const repo of data)
\*   if (!seenIds.has(repo.id)) { seenIds.add(repo.id); repos.push(repo); }
AddRepos(f, data) ==
  [f EXCEPT !.seenIds = f.seenIds \cup {data[i].id : i \in 1..Len(data)},
            !.repos = f.repos \o Pushed(f, data)]

\* the first organization at index k or later that has a name, if any: the
\* for loop runs on to the fetch of that organization's first page, or ends
RECURSIVE NextOrg(_, _)
NextOrg(f, k) ==
  IF k > Len(f.allOrgs) THEN [f EXCEPT !.phase = "returned"]
  ELSE IF OrgName(f.allOrgs[k]) = 0 THEN NextOrg(f, k + 1)
  ELSE [f EXCEPT !.phase = "orgrepos", !.orgIdx = k, !.page = 1]

\* the search loop has ended: if (accessToken) { page = 1; ... }
AfterSearch(f) ==
  IF f.token # "" THEN [f EXCEPT !.phase = "user", !.page = 1]
  ELSE [f EXCEPT !.phase = "returned"]

\* one turn of a search loop that does not look at total_count
SearchBodyIgnoresTotal(f, r) ==
  IF Threw(r) THEN [f EXCEPT !.phase = "rejected", !.error = FetchFailed]
  ELSE IF ~Ok(r) THEN
    [f EXCEPT !.phase = "rejected",
              !.error = PlainApiError(r.status,
                                      IF r.text # "" THEN r.text ELSE r.statusText)]
  ELSE IF ~r.jsonOk THEN [f EXCEPT !.phase = "rejected", !.error = JsonFailed]
  ELSE
    LET data == IF r.isArray THEN r.body ELSE <<>>
        g == AddRepos(f, data)
    IN  IF Len(data) = 0 THEN AfterSearch(g)
        ELSE IF Len(g.repos) = f.prevCount THEN AfterSearch(g)
        ELSE [g EXCEPT !.prevCount = Len(g.repos), !.page = f.page + 1]

\* one turn of the search loop
SearchBody(f, r) ==
  IF Threw(r) THEN [f EXCEPT !.phase = "rejected", !.error = FetchFailed]
  ELSE IF ~Ok(r) THEN
    [f EXCEPT !.phase = "rejected",
              !.error = PlainApiError(r.status,
                                      IF r.text # "" THEN r.text ELSE r.statusText)]
  ELSE IF ~r.jsonOk THEN [f EXCEPT !.phase = "rejected", !.error = JsonFailed]
  ELSE
    LET data == IF r.isArray THEN r.body ELSE <<>>
        g == AddRepos(f, data)
    IN  IF Len(data) = 0 THEN AfterSearch(g)
        ELSE IF r.total # NoTotal /\ Len(g.repos) >= r.total THEN AfterSearch(g)
        ELSE IF Len(g.repos) = f.prevCount THEN AfterSearch(g)
        ELSE [g EXCEPT !.prevCount = Len(g.repos), !.page = f.page + 1]

\* one turn of the user-repos loop (outside the try block)
UserReposBody(f, r) ==
  LET done == [f EXCEPT !.phase = "orgs", !.page = 1] IN
  IF Threw(r) THEN [f EXCEPT !.phase = "rejected", !.error = FetchFailed]
  ELSE IF ~Ok(r) THEN done
  ELSE IF ~r.jsonOk THEN [f EXCEPT !.phase = "rejected", !.error = JsonFailed]
  ELSE IF NoData(r) THEN done
  ELSE
    LET g == AddRepos(f, r.body) IN
      IF Len(g.repos) = Len(f.repos) THEN [g EXCEPT !.phase = "orgs", !.page = 1]
      ELSE [g EXCEPT !.page = f.page + 1]

\* one turn of the organization-listing loop (inside the try block)
OrgsBody(f, r) ==
  IF Threw(r) \/ (Ok(r) /\ ~r.jsonOk) THEN [f EXCEPT !.phase = "returned"]
  ELSE IF ~Ok(r) THEN NextOrg(f, 1)
  ELSE IF NoData(r) THEN NextOrg(f, 1)
  ELSE
    LET g == [f EXCEPT !.allOrgs = f.allOrgs \o r.body] IN
      IF Len(r.body) < PER_PAGE THEN NextOrg(g, 1)
      ELSE [g EXCEPT !.page = f.page + 1]

\* one turn of the repository loop of one organization, with no catch
\* around it
OrgReposBodyUncaught(f, r) ==
  IF Threw(r) THEN [f EXCEPT !.phase = "rejected", !.error = FetchFailed]
  ELSE IF Ok(r) /\ ~r.jsonOk THEN [f EXCEPT !.phase = "rejected", !.error = JsonFailed]
  ELSE IF ~Ok(r) THEN NextOrg(f, f.orgIdx + 1)
  ELSE IF NoData(r) THEN NextOrg(f, f.orgIdx + 1)
  ELSE
    LET g == AddRepos(f, r.body) IN
      IF Len(g.repos) = Len(f.repos) THEN NextOrg(g, f.orgIdx + 1)
      ELSE [g EXCEPT !.page = f.page + 1]

\* one turn of the repository loop of one organization (inside the try block)
OrgReposBody(f, r) ==
  IF Threw(r) \/ (Ok(r) /\ ~r.jsonOk) THEN [f EXCEPT !.phase = "returned"]
  ELSE IF ~Ok(r) THEN NextOrg(f, f.orgIdx + 1)
  ELSE IF NoData(r) THEN NextOrg(f, f.orgIdx + 1)
  ELSE
    LET g == AddRepos(f, r.body) IN
      IF Len(g.repos) = Len(f.repos) THEN NextOrg(g, f.orgIdx + 1)
      ELSE [g EXCEPT !.page = f.page + 1]

\* the loop turn of the phase the call is in
fetchAllReposBody(f, r) ==
  CASE f.phase = "search"   -> SearchBody(f, r)
    [] f.phase = "user"     -> UserReposBody(f, r)
    [] f.phase = "orgs"     -> OrgsBody(f, r)
    [] f.phase = "orgrepos" -> OrgReposBody(f, r)

FrAwaiting(f) == f.phase \in {"search", "user", "orgs", "orgrepos"}

\* the request the call is waiting on
fetchAllReposRequest(f) ==
  LET ep == CASE f.phase = "search"   -> Endpoint("repos/search", 0, 0)
              [] f.phase = "user"     -> Endpoint("user/repos", 0, 0)
              [] f.phase = "orgs"     -> Endpoint("orgs", 0, 0)
              [] f.phase = "orgrepos" ->
                   Endpoint("orgs/repos", OrgName(f.allOrgs[f.orgIdx]), 0)
  IN  [url |-> ApiUrl(ep, f.page, ""), auth |-> f.token]

(***************************************************************************)
(* The cache of a command in LocalStorage: a payload item and a time item  *)
(***************************************************************************)
\* statusById of a payload that has none
NoStatus == [defined |-> FALSE, map |-> <<>>]
StatusById(m) == [defined |-> TRUE, map |-> m]

\* What a payload item encodes.  The repositories command stores an array
\* of repositories, the inbox command an object
\* { created, reviewRequested, statusById? }.
NoPayload ==
  [shape |-> "none", created |-> <<>>, reviewRequested |-> <<>>,
   statusById |-> NoStatus, repos |-> <<>>]
InboxPayload(created, reviewRequested, statusById) ==
  [shape |-> "object", created |-> created, reviewRequested |-> reviewRequested,
   statusById |-> statusById, repos |-> <<>>]
ReposPayload(repos) ==
  [shape |-> "array", created |-> <<>>, reviewRequested |-> <<>>,
   statusById |-> NoStatus, repos |-> repos]

\* getItem of a key that is not stored resolves to undefined
NoItem == [kind |-> "undefined", n |-> 0, val |-> NoPayload]
\* JSON.stringify(payload): the text that JSON.parse reads back as payload
JsonItem(payload) == [kind |-> "json", n |-> 0, val |-> payload]
\* String(Date.now()): the decimal digits of t
TimeItem(t) == [kind |-> "digits", n |-> t, val |-> NoPayload]

NoCache == [data |-> NoItem, time |-> NoItem]
NoCached == [present |-> FALSE, payload |-> NoPayload, timestamp |-> 0]

\* Number(rawTime)
NumberOf(item) ==
  [nan |-> item.kind # "digits", n |-> IF item.kind = "digits" THEN item.n ELSE 0]

\* loadCachedInbox: both items are read; a missing item, a time that is not
\* a number, a payload that does not parse or has no two arrays give
\* { payload: null, timestamp: null }
loadCachedInbox(c) ==
  IF c.data.kind = "undefined" \/ c.time.kind = "undefined" THEN NoCached
  ELSE IF NumberOf(c.time).nan THEN NoCached
  ELSE IF c.data.kind # "json" \/ c.data.val.shape # "object" THEN NoCached
  ELSE [present |-> TRUE, payload |-> c.data.val, timestamp |-> NumberOf(c.time).n]

\* loadCachedRepos: as above, the payload being an array
loadCachedRepos(c) ==
  IF c.data.kind = "undefined" \/ c.time.kind = "undefined" THEN NoCached
  ELSE IF c.data.kind # "json" THEN NoCached
  ELSE IF c.data.val.shape # "array" \/ NumberOf(c.time).nan THEN NoCached
  ELSE [present |-> TRUE, payload |-> c.data.val, timestamp |-> NumberOf(c.time).n]

\* saveCachedInbox(baseUrl, payload) at clock reading t
saveCachedInbox(payload, t) == [data |-> JsonItem(payload), time |-> TimeItem(t)]

\* saveCachedRepos(repos) at clock reading t
saveCachedRepos(repos, t) ==
  [data |-> JsonItem(ReposPayload(repos)), time |-> TimeItem(t)]

\* clearCachedInbox(baseUrl), clearCache(): both items are removed
clearCache == NoCache

\* Number(preferences.cacheTtlMinutes) || 60: pref is the number the
\* preference text converts to, NaN when it is not a number
cacheTtlMinutes(pref) == IF pref.nan \/ pref.n = 0 THEN 60 ELSE pref.n

\* the freshness test with the boundary counted as fresh
isFreshInclusive(cached, nowMs, ttl) ==
  cached.timestamp # 0 /\ nowMs - cached.timestamp <= ttl * 60000

\* cached.timestamp && Date.now() - cached.timestamp < cacheTtlMinutes * 60_000
isFresh(cached, nowMs, ttl) ==
  cached.timestamp # 0 /\ nowMs - cached.timestamp < ttl * 60000

(***************************************************************************)
(* The view state of a command and its refresh callback                    *)
(***************************************************************************)
\* errorMessage: null, or the message of an error
NoMessage == [isNull |-> TRUE, status |-> 0, detail |-> ""]
\* error instanceof Error ? error.message : "Failed to load ..."
MessageOf(err) == [isNull |-> FALSE, status |-> err.msgStatus, detail |-> err.detail]

\* the useState values of Command before the settings have loaded
viewInit ==
  [stage |-> "init", created |-> <<>>, reviewRequested |-> <<>>,
   statusById |-> <<>>, repos |-> <<>>, isLoading |-> TRUE,
   errorMessage |-> NoMessage, debugInfo |-> "null", lastError |-> NoError]

\* what the live fetch of a refresh settles with: fetchPullRequestInbox
\* returns { created, reviewRequested, debug } or throws an error carrying
\* __debug; fetchAllRepos returns the repositories or throws
NoOutcome ==
  [settled |-> FALSE, ok |-> FALSE, payload |-> NoPayload, error |-> NoError,
   debug |-> "null"]
LiveReturned(payload, debug) ==
  [settled |-> TRUE, ok |-> TRUE, payload |-> payload, error |-> NoError,
   debug |-> debug]
LiveRejected(err, debug) ==
  [settled |-> TRUE, ok |-> FALSE, payload |-> NoPayload, error |-> err,
   debug |-> debug]

\* the lists a view shows
ListsOf(v) ==
  [created |-> v.created, reviewRequested |-> v.reviewRequested, repos |-> v.repos]

\* One call of the refresh callback.  no counts the calls of the view,
\* baseUrl and accessToken are the values the callback closed over; cache0, net0 and startedAt record the cache, the
\* number of requests issued and the clock when the call was made, read
\* whether the cache was read, cached what the read gave, loadedAt the clock
\* at the freshness test, fetched whether the live fetch was called, lists0
\* the lists shown when it was called, outcome what it settled with and
\* settledAt the clock at that moment.
NewRefresh(no, force, baseUrl, accessToken, c, issued, nowMs) ==
  [no |-> no, force |-> force, baseUrl |-> baseUrl, accessToken |-> accessToken,
   pc |-> "enter", cache0 |-> c, net0 |-> issued, startedAt |-> nowMs,
   read |-> FALSE, cached |-> NoCached, loadedAt |-> 0, fetched |-> FALSE,
   lists0 |-> ListsOf(viewInit), outcome |-> NoOutcome, settledAt |-> 0]

\* A frame F gathers what a step of the callback touches: the view state,
\* the cache, the record r of the call and the requests reqs it issues.

\* the cache is read whether or not the refresh is forced
ReadsCacheAlways(force) == TRUE

\* if (!force) { const cached = await loadCached...() ... }
ReadsCache(force) == ~force

\* fetchPullRequestInbox(baseUrl, accessToken, debugEnabled) is called: both
\* global requests are issued
inboxFetchStart(F) ==
  [F EXCEPT !.r.pc = "fetch", !.r.fetched = TRUE, !.r.lists0 = ListsOf(F.view),
            !.reqs = <<PagedRequest(fetchPagedStart(CreatedUrl, F.r.accessToken)),
                       PagedRequest(fetchPagedStart(ReviewRequestedUrl, F.r.accessToken))>>]

\* refreshInbox(force) up to its first await
refreshInboxEnter(F) ==
  IF F.r.baseUrl = 0 \/ F.r.accessToken = ""
    THEN [F EXCEPT !.view.isLoading = FALSE, !.r.pc = "done"]
  ELSE
    LET G == [F EXCEPT !.view.errorMessage = NoMessage,
                       !.view.debugInfo = "null",
                       !.view.lastError = NoError]
    IN  IF ReadsCache(F.r.force)
          THEN [G EXCEPT !.r.pc = "load"]
          ELSE inboxFetchStart([G EXCEPT !.view.isLoading = TRUE])

\* refreshInbox resumes with the cache read at clock reading nowMs
refreshInboxLoaded(F, ttl, nowMs) ==
  LET cached == loadCachedInbox(F.cache)
      G == [F EXCEPT !.r.read = TRUE, !.r.cached = cached, !.r.loadedAt = nowMs]
  IN  IF cached.present
        THEN LET H == [G EXCEPT !.view.created = cached.payload.created,
                                !.view.reviewRequested = cached.payload.reviewRequested,
                                !.view.statusById =
                                   IF cached.payload.statusById.defined
                                     THEN cached.payload.statusById.map ELSE @]
             IN  IF isFresh(cached, nowMs, ttl)
                   THEN [H EXCEPT !.view.isLoading = FALSE, !.r.pc = "done"]
                   ELSE inboxFetchStart([H EXCEPT !.view.isLoading = FALSE])
        ELSE inboxFetchStart([G EXCEPT !.view.isLoading = TRUE])

\* the try block of refreshInbox after fetchPullRequestInbox has returned o
\* at clock reading nowMs, up to the await of saveCachedInbox
refreshInboxSucceeded(F, o, nowMs) ==
  [F EXCEPT !.view.created = o.payload.created,
            !.view.reviewRequested = o.payload.reviewRequested,
            !.view.debugInfo = o.debug,
            !.cache = saveCachedInbox(InboxPayload(o.payload.created,
                                                   o.payload.reviewRequested,
                                                   NoStatus), nowMs),
            !.r.pc = "save", !.r.outcome = o]

\* a catch block that also empties the lists
refreshInboxFailedClears(F, o) ==
  [F EXCEPT !.view.errorMessage = MessageOf(o.error),
            !.view.lastError = o.error,
            !.view.created = <<>>, !.view.reviewRequested = <<>>,
            !.r.pc = "toast", !.r.outcome = o]

\* the catch block of refreshInbox, up to the await of showToast
refreshInboxFailed(F, o) ==
  [F EXCEPT !.view.errorMessage = MessageOf(o.error),
            !.view.lastError = o.error,
            !.view.debugInfo = IF o.debug # "null" THEN o.debug ELSE @,
            !.r.pc = "toast", !.r.outcome = o]

\* fetchAllRepos(baseUrl, accessToken) is called: the first search request
\* is issued
reposFetchStart(F) ==
  [F EXCEPT !.r.pc = "fetch", !.r.fetched = TRUE, !.r.lists0 = ListsOf(F.view),
            !.reqs = <<fetchAllReposRequest(fetchAllReposStart(F.r.accessToken))>>]

\* refreshRepos(force) up to its first await
refreshReposEnter(F) ==
  IF F.r.baseUrl = 0
    THEN [F EXCEPT !.view.isLoading = FALSE, !.r.pc = "done"]
  ELSE
    LET G == [F EXCEPT !.view.isLoading = TRUE, !.view.errorMessage = NoMessage]
    IN  IF ReadsCache(F.r.force) THEN [G EXCEPT !.r.pc = "load"]
                                 ELSE reposFetchStart(G)

\* refreshRepos resumes with the cache read at clock reading nowMs
refreshReposLoaded(F, ttl, nowMs) ==
  LET cached == loadCachedRepos(F.cache)
      G == [F EXCEPT !.r.read = TRUE, !.r.cached = cached, !.r.loadedAt = nowMs]
  IN  IF cached.present
        THEN LET H == [G EXCEPT !.view.repos = cached.payload.repos]
             IN  IF isFresh(cached, nowMs, ttl)
                   THEN [H EXCEPT !.view.isLoading = FALSE, !.r.pc = "done"]
                   ELSE reposFetchStart(H)
        ELSE reposFetchStart(G)

\* the try block of refreshRepos after fetchAllRepos has returned o at clock
\* reading nowMs, up to the await of saveCachedRepos
refreshReposSucceeded(F, o, nowMs) ==
  [F EXCEPT !.view.repos = o.payload.repos,
            !.cache = saveCachedRepos(o.payload.repos, nowMs),
            !.r.pc = "save", !.r.outcome = o]

\* the catch block of refreshRepos, up to the await of showToast
refreshReposFailed(F, o) ==
  [F EXCEPT !.view.errorMessage = MessageOf(o.error),
            !.r.pc = "toast", !.r.outcome = o]

\* the finally block of either callback: setIsLoading(false)
refreshFinally(F) == [F EXCEPT !.view.isLoading = FALSE, !.r.pc = "done"]

\* no pure function is under evaluation
NoEval == [pc |-> "none"]

\* the enrichment effect has not run
enrichIdle ==
  [pc |-> "idle", all |-> <<>>, results |-> <<>>, isMounted |-> FALSE,
   next |-> <<>>]

\* neither an evaluation nor an enrichment is in progress
ExtraIdle ==
  /\ ev = NoEval
  /\ en = enrichIdle

\* no command view has been opened
RefreshIdle ==
  /\ cfg = [cmd |-> "none", baseUrl |-> 0, accessToken |-> "",
            ttlPref |-> [nan |-> TRUE, n |-> 0]]
  /\ cache = NoCache
  /\ now = 0
  /\ ticks = 0
  /\ view = viewInit
  /\ rfs = <<>>

(***************************************************************************)
(* SpecPaged: one fetchPaged call against an arbitrary server              *)
(***************************************************************************)
InitPaged ==
  /\ net = <<>>
  /\ pg = fetchPagedIdle
  /\ pgSeen = <<>>
  /\ srv = "paged"
  /\ fr = fetchAllReposIdle
  /\ frSeen = <<>>
  /\ InboxIdle
  /\ ExtraIdle
  /\ RefreshIdle

\* fetchPaged(url, accessToken) is called and issues the fetch of page 1
PagedCall ==
  /\ pg.pc = "idle"
  /\ \E url \in PagedUrls, tok \in Tokens :
       /\ pg' = fetchPagedStart(url, tok)
       /\ net' = Append(net, PagedRequest(fetchPagedStart(url, tok)))
  /\ UNCHANGED <<pgSeen, srv, extraVars, refreshVars, reposVars, inboxVars>>

\* the pending fetch settles and the loop runs to its next await or its end
PagedRespond ==
  /\ pg.pc = "await"
  /\ \E r \in PagedResponses(pg.page) :
       LET c == fetchPagedBody(pg, r) IN
         /\ pg' = c
         /\ pgSeen' = Append(pgSeen, r)
         /\ net' = IF c.pc = "await" THEN Append(net, PagedRequest(c)) ELSE net
  /\ UNCHANGED <<srv, extraVars, refreshVars, reposVars, inboxVars>>

NextPaged == PagedCall \/ PagedRespond

SpecPaged == InitPaged /\ [][NextPaged]_vars

(***************************************************************************)
(* C1                                                                      *)
(***************************************************************************)
RECURSIVE ConcatPages(_)
ConcatPages(rs) ==
  IF rs = <<>> THEN <<>>
  ELSE (IF Ok(Head(rs)) /\ Head(rs).isArray THEN Head(rs).body ELSE <<>>)
         \o ConcatPages(Tail(rs))

\* a page with fewer than 100 items or zero items (a body that is no array
\* carries no items)
ShortPage(r) == ~r.isArray \/ Len(r.body) < 100

\* C1: when fetchPaged returns, its result is the concatenation of the
\* pages it received in request order, its requests were for pages
\* 1, 2, 3, ... in that order, and their number is the index of the first
\* page with fewer than 100 items (or none).
C1_PagedConcat ==
  pg.pc = "returned" =>
    /\ pg.items = ConcatPages(pgSeen)
    /\ Len(net) = Len(pgSeen)
    /\ \A i \in 1..Len(net) : net[i].url.page = i /\ net[i].url.limit = 100
    /\ ShortPage(pgSeen[Len(pgSeen)])
    /\ \A i \in 1..(Len(pgSeen) - 1) : ~ShortPage(pgSeen[i])

\* a call that returned after three pages, two of them full
C1_Witness ==
  /\ pg.pc = "returned"
  /\ Len(pgSeen) = 3
  /\ Len(pg.items) = 2 * PER_PAGE + 1 + (PER_PAGE - 1)

(***************************************************************************)
(* The server side of repository discovery.  srv names a family of         *)
(* servers: each family answers one source with every kind of response     *)
(* and the other sources with a few, so that the sources overlap in the    *)
(* ids they return.  tag marks the objects of one response.                *)
(***************************************************************************)
RepoPage(lo, n, tag) == [i \in 1..n |-> Repo(lo + i - 1, tag)]
\* repositories 1..n, the third with a full_name that has no "/"
ScanRepos(n, tag) ==
  [i \in 1..n |-> IF i = 3 THEN BareRepo(i, tag) ELSE Repo(i, tag)]
\* a page carrying one id twice
DupPage(tag) == <<Repo(7, tag), Repo(7, tag + 1000)>>

SearchOk(items, total) == Response(200, "OK", "", TRUE, TRUE, items, total)
\* a search answer whose data field is no array
SearchNoData(total) == Response(200, "OK", "", TRUE, FALSE, <<>>, total)

SearchResponses(family, page, tag) ==
  CASE family = "search" ->
         { SearchOk(d, t) :
             d \in {<<>>, RepoPage(1, 2, tag), RepoPage(2, 2, tag), DupPage(tag)}
                     \cup (IF page = 1 THEN {RepoPage(1, PER_PAGE, tag)}
                           ELSE {RepoPage(PER_PAGE + 1, 50, tag)}),
             t \in {NoTotal, 3, 150} }
           \cup { SearchNoData(3), OkBadJson, NetworkFailure,
                  HttpError(500, "Internal Server Error", ""),
                  HttpError(403, "Forbidden", "token is required") }
    [] family = "manyorgs" -> { SearchOk(<<>>, 0) }
    [] family = "scan" -> { SearchOk(RepoPage(1, n, tag), n) : n \in 0..MaxRepos }
    [] family = "global" ->
         { SearchOk(ScanRepos(3, tag), 3), HttpError(500, "Internal Server Error", "") }
    [] OTHER -> { SearchOk(<<>>, 0), SearchOk(RepoPage(1, 2, tag), 2) }

UserReposResponses(family, page, tag) ==
  CASE family = "user" ->
         { OkArray(d) : d \in {<<>>, RepoPage(1, 2, tag), RepoPage(2, 2, tag),
                               RepoPage(3, 2, tag), DupPage(tag)} }
           \cup { OkNotArray, OkBadJson, NetworkFailure,
                  HttpError(403, "Forbidden", "") }
    [] family = "manyorgs" -> { OkArray(<<>>) }
    [] family = "scan" -> { HttpError(403, "Forbidden", "") }
    [] family = "global" -> { OkArray(RepoPage(2, 1, tag)), NetworkFailure }
    [] OTHER -> { OkArray(RepoPage(2, 2, tag)), HttpError(403, "Forbidden", "") }

OrgsResponses(family, page, tag) ==
  CASE family = "orgs" ->
         { OkArray(d) : d \in {<<>>, <<Org(1, 0)>>,
                               <<Org(1, 0), Org(0, 0), Org(0, 2)>>} }
           \cup { OkNotArray, OkBadJson, NetworkFailure,
                  HttpError(500, "Internal Server Error", "") }
    [] family = "manyorgs" ->
         IF page < MaxRepoPages
           THEN { OkArray([i \in 1..PER_PAGE |-> Org((page - 1) * PER_PAGE + i, 0)]) }
           ELSE { OkArray(<<>>), OkArray(<<Org(page * PER_PAGE, 0)>>), NetworkFailure }
    [] family \in {"scan", "global"} -> { HttpError(500, "Internal Server Error", "") }
    [] OTHER -> { OkArray(<<Org(1, 0)>>), HttpError(500, "Internal Server Error", "") }

OrgReposResponses(family, orgName, page, tag) ==
  CASE family = "orgs" ->
         { OkArray(d) : d \in {<<>>, RepoPage(2, 2, tag), RepoPage(4, 2, tag)} }
           \cup { OkBadJson, NetworkFailure, HttpError(404, "Not Found", "") }
    [] family = "manyorgs" ->
         IF orgName = 1
           THEN { OkArray(RepoPage(2, 2, tag)), NetworkFailure,
                  HttpError(404, "Not Found", "") }
           ELSE { OkArray(<<>>) }
    [] OTHER -> { OkArray(RepoPage(2, 2, tag)), HttpError(404, "Not Found", "") }

\* the answers the servers of the family can give to the pending request
ReposResponses(family, f, tag) ==
  CASE f.phase = "search"   -> SearchResponses(family, f.page, tag)
    [] f.phase = "user"     -> UserReposResponses(family, f.page, tag)
    [] f.phase = "orgs"     -> OrgsResponses(family, f.page, tag)
    [] f.phase = "orgrepos" ->
         OrgReposResponses(family, OrgName(f.allOrgs[f.orgIdx]), f.page, tag)

ReposFamilies == {"search", "user", "orgs", "manyorgs"}

(***************************************************************************)
(* SpecRepos: one fetchAllRepos call                                       *)
(***************************************************************************)
InitRepos ==
  /\ net = <<>>
  /\ srv \in ReposFamilies
  /\ fr = fetchAllReposIdle
  /\ frSeen = <<>>
  /\ pg = fetchPagedIdle
  /\ pgSeen = <<>>
  /\ InboxIdle
  /\ ExtraIdle
  /\ RefreshIdle

\* fetchAllRepos(baseUrl, accessToken) is called and issues its first fetch
ReposCall ==
  /\ fr.phase = "idle"
  /\ \E tok \in Tokens :
       /\ fr' = fetchAllReposStart(tok)
       /\ net' = Append(net, fetchAllReposRequest(fetchAllReposStart(tok)))
  /\ UNCHANGED <<srv, extraVars, refreshVars, frSeen, pagedVars, inboxVars>>

\* The pending fetch of fetchAllRepos settles while the call is in the given
\* phase; the call runs on to its next fetch, its return or its throw.  No
\* source is asked for a page beyond MaxRepoPages.
ReposStep(phase) ==
  /\ fr.phase = phase
  /\ \E r \in ReposResponses(srv, fr, Len(net)) :
       LET f == fetchAllReposBody(fr, r) IN
         /\ FrAwaiting(f) => f.page <= MaxRepoPages
         /\ fr' = f
         /\ frSeen' = Append(frSeen, [src |-> phase, resp |-> r])
         /\ net' = IF FrAwaiting(f) THEN Append(net, fetchAllReposRequest(f)) ELSE net
  /\ UNCHANGED <<srv, extraVars, refreshVars>>

ReposSearchRespond   == ReposStep("search") /\ UNCHANGED <<pagedVars, inboxVars>>
ReposUserRespond     == ReposStep("user") /\ UNCHANGED <<pagedVars, inboxVars>>
ReposOrgsRespond     == ReposStep("orgs") /\ UNCHANGED <<pagedVars, inboxVars>>
ReposOrgReposRespond == ReposStep("orgrepos") /\ UNCHANGED <<pagedVars, inboxVars>>

NextRepos ==
  \/ ReposCall
  \/ ReposSearchRespond
  \/ ReposUserRespond
  \/ ReposOrgsRespond
  \/ ReposOrgReposRespond

SpecRepos == InitRepos /\ [][NextRepos]_vars

(***************************************************************************)
(* C7                                                                      *)
(***************************************************************************)
\* the repository objects a response delivered (none when it failed or
\* carried no array)
DeliveredRepos(e) ==
  IF e.src # "orgs" /\ Ok(e.resp) /\ e.resp.jsonOk /\ e.resp.isArray
    THEN e.resp.body ELSE <<>>

\* every repository object the call received, in the order received
RECURSIVE ReceivedRepos(_)
ReceivedRepos(seen) ==
  IF seen = <<>> THEN <<>>
  ELSE ReceivedRepos(SubSeq(seen, 1, Len(seen) - 1)) \o DeliveredRepos(seen[Len(seen)])

\* C7: the list fetchAllRepos returns holds every repository id it received
\* from any source exactly once, and the object held for an id is the first
\* one received (search before user repos before organization repos,
\* earlier page before later page).
C7_DedupFirstWins ==
  fr.phase = "returned" =>
    LET all == ReceivedRepos(frSeen)
        idx == 1..Len(fr.repos)
    IN  /\ {fr.repos[i].id : i \in idx} = {all[k].id : k \in 1..Len(all)}
        /\ \A i, j \in idx : fr.repos[i].id = fr.repos[j].id => i = j
        /\ \A i \in idx :
             \E k \in 1..Len(all) :
               /\ all[k] = fr.repos[i]
               /\ \A m \in 1..(k - 1) : all[m].id # all[k].id

\* a returned call that received one id in different objects from the
\* search, an organization and a third response
C7_Witness ==
  /\ fr.phase = "returned"
  /\ \E a, b \in 1..Len(frSeen) :
       /\ frSeen[a].src = "search" /\ frSeen[b].src = "orgrepos"
       /\ \E x \in 1..Len(DeliveredRepos(frSeen[a])),
             y \in 1..Len(DeliveredRepos(frSeen[b])) :
            /\ DeliveredRepos(frSeen[a])[x].id = DeliveredRepos(frSeen[b])[y].id
            /\ DeliveredRepos(frSeen[a])[x] # DeliveredRepos(frSeen[b])[y]

(***************************************************************************)
(* The server side of the pull-request inbox.  The servers of family       *)
(* "global" answer the two global endpoints and /user in every way and     *)
(* hold few repositories; those of family "scan" lack the global           *)
(* endpoints and hold up to MaxRepos repositories.                         *)
(***************************************************************************)
GlobalPage(ep, page, n) ==
  [k \in 1..n |->
     PR((IF ep = "created" THEN 800000 ELSE 900000) + 1000 * page + k,
        IF ep = "created" THEN "alice" ELSE "bob",
        IF ep = "created" THEN <<>> ELSE <<"alice">>)]

GlobalResponses(family, ep, page) ==
  IF family = "scan" THEN { HttpError(404, "Not Found", "404 page not found") }
  ELSE { OkArray(GlobalPage(ep, page, n)) :
           n \in {0, 2} \cup (IF page < MaxPages THEN {PER_PAGE} ELSE {}) }
         \cup { OkBadJson, NetworkFailure,
                HttpError(404, "Not Found", "404 page not found"),
                HttpError(500, "Internal Server Error", "") }

UserResponses(family) ==
  IF family = "scan" THEN { OkUser(User(1, "alice")) }
  ELSE { OkUser(User(1, "alice")), OkNull, OkBadJson, NetworkFailure,
         HttpError(401, "Unauthorized", "") }

\* the open pull requests of repository owner/name: a full page followed by
\* a short one for repository 1, one short page for the others
PullsPage(name, page) ==
  IF name = 1 /\ page = 1
    THEN [k \in 1..PER_PAGE |->
            PR(100000 * name + 1000 * page + k,
               IF k % 2 = 1 THEN "alice" ELSE "bob",
               IF k % 3 = 0 THEN <<"alice">> ELSE <<>>)]
    ELSE << PR(100000 * name + 1000 * page + 1, "alice", <<>>),
            PR(100000 * name + 1000 * page + 2, "bob", <<"carol", "alice">>),
            PR(100000 * name + 1000 * page + 3, "", <<"bob">>) >>

PullsResponses(family, url, page) ==
  { OkArray(PullsPage(url.name, page)),
    HttpError(500, "Internal Server Error", "") }
    \cup (IF url.name = 2
            THEN { NetworkFailure, OkBadJson, OkArray(<<>>),
                   HttpError(404, "Not Found", "") }
            ELSE {})

InboxFamilies == {"global", "scan"}

(***************************************************************************)
(* SpecInbox: one fetchPullRequestInbox call                               *)
(***************************************************************************)
InitInbox ==
  /\ net = <<>>
  /\ srv \in InboxFamilies
  /\ fr = fetchAllReposIdle
  /\ frSeen = <<>>
  /\ pg = fetchPagedIdle
  /\ pgSeen = <<>>
  /\ InboxIdle
  /\ ExtraIdle
  /\ RefreshIdle

\* the scan state the workers share, as the variables hold it
ScanState ==
  [items |-> mc.items, nextIndex |-> mc.nextIndex, results |-> mc.results,
   wk |-> wk, live |-> mc.live, reqs |-> <<>>, failures |-> mc.failures,
   scans |-> scans]

\* the variables take a scan state
SetScanState(S) ==
  /\ mc' = [items |-> S.items, nextIndex |-> S.nextIndex, results |-> S.results,
            failures |-> S.failures, live |-> S.live]
  /\ wk' = S.wk
  /\ scans' = S.scans
  /\ net' = net \o S.reqs

\* fetchPullRequestInbox is called: both global fetchPaged calls start
InboxCall ==
  /\ ib.pc = "idle"
  /\ \E tok \in Tokens \ {""} :
       LET c == fetchPagedStart(CreatedUrl, tok)
           v == fetchPagedStart(ReviewRequestedUrl, tok)
       IN  /\ ib' = [inboxIdle EXCEPT !.pc = "global", !.token = tok]
           /\ gl' = [gl EXCEPT !["created"] = c, !["review"] = v]
           /\ net' = net \o <<PagedRequest(c), PagedRequest(v)>>
  /\ UNCHANGED <<srv, extraVars, refreshVars, glSeen, mc, wk, scans, pagedVars, reposVars>>

\* the pending fetch of one of the two global calls settles
GlobalRespond(ep) ==
  /\ ib.pc = "global"
  /\ gl[ep].pc = "await"
  /\ \E r \in GlobalResponses(srv, ep, gl[ep].page) :
       LET c == fetchPagedBody(gl[ep], r) IN
         /\ gl' = [gl EXCEPT ![ep] = c]
         /\ glSeen' = [glSeen EXCEPT ![ep] = Append(glSeen[ep], r)]
         /\ net' = IF c.pc = "await" THEN Append(net, PagedRequest(c)) ELSE net
  /\ UNCHANGED <<srv, extraVars, refreshVars, ib, mc, wk, scans, pagedVars, reposVars>>

InboxCreatedRespond == GlobalRespond("created")
InboxReviewRespond  == GlobalRespond("review")

\* Promise.allSettled resolves: the call returns, throws or turns to the
\* fallback and calls fetchCurrentUser
InboxGlobalSettled ==
  /\ ib.pc = "global"
  /\ Settled(gl["created"]) /\ Settled(gl["review"])
  /\ ib' = inboxAfterGlobal(ib, gl["created"], gl["review"])
  /\ net' = IF ib'.pc = "user" THEN Append(net, CurrentUserRequest(ib.token)) ELSE net
  /\ UNCHANGED <<srv, extraVars, refreshVars, gl, glSeen, mc, wk, scans, pagedVars, reposVars>>

\* fetchCurrentUser settles: the call throws or calls fetchAllRepos
InboxUserRespond ==
  /\ ib.pc = "user"
  /\ \E r \in UserResponses(srv) :
       /\ ib' = [inboxAfterUser(ib, fetchCurrentUserResult(r)) EXCEPT !.userSeen = <<r>>]
       /\ IF ib'.pc = "repos"
            THEN /\ fr' = fetchAllReposStart(ib.token)
                 /\ net' = Append(net, fetchAllReposRequest(fetchAllReposStart(ib.token)))
            ELSE UNCHANGED <<fr, net>>
  /\ UNCHANGED <<srv, extraVars, refreshVars, frSeen, gl, glSeen, mc, wk, scans, pagedVars>>

\* fetchAllRepos settles: the call throws, or mapWithConcurrency starts its
\* workers
InboxReposSettled ==
  /\ ib.pc = "repos"
  /\ fr.phase \in {"returned", "rejected"}
  /\ ib' = inboxAfterRepos(ib, fr)
  /\ IF ib'.pc = "scan"
       THEN SetScanState(mapWithConcurrencyStart(fr.repos, Concurrency, ib.token))
       ELSE UNCHANGED <<mc, wk, scans, net>>
  /\ UNCHANGED <<srv, extraVars, refreshVars, gl, glSeen, pagedVars, reposVars>>

\* a worker resumes from a callback that returned without fetching
InboxWorkerResume ==
  /\ ib.pc = "scan"
  /\ \E w \in DOMAIN wk :
       /\ wk[w].pc = "resume"
       /\ SetScanState(WorkerResume(ScanState, w, ib.token))
  /\ UNCHANGED <<srv, extraVars, refreshVars, ib, gl, glSeen, pagedVars, reposVars>>

\* the pending pulls fetch of a worker settles (promise continuations run
\* before the next response is delivered); a server fails at most
\* MaxFailures fetches of a scan
InboxWorkerRespond ==
  /\ ib.pc = "scan"
  /\ \A w \in DOMAIN wk : wk[w].pc # "resume"
  /\ \E w \in DOMAIN wk :
       /\ wk[w].pc = "fetch"
       /\ \E r \in PullsResponses(srv, wk[w].call.url, wk[w].call.page) :
            LET S == WorkerSettle(ScanState, w, r, ib.currentUser.login, ib.token) IN
              /\ \A v \in DOMAIN S.wk : S.wk[v].call.page <= MaxPages
              /\ Cardinality({j \in DOMAIN S.scans : S.scans[j].end = "rejected"})
                   <= MaxFailures
              /\ SetScanState(S)
  /\ UNCHANGED <<srv, extraVars, refreshVars, ib, gl, glSeen, pagedVars, reposVars>>

\* every worker has returned: Promise.all resolves and the call returns
InboxScanSettled ==
  /\ ib.pc = "scan"
  /\ mc.live = 0
  /\ ib' = inboxAfterScan(ib, gl["created"], gl["review"], mc.results,
                          Len(mc.items), mc.failures)
  /\ UNCHANGED <<net, srv, extraVars, refreshVars, gl, glSeen, mc, wk, scans, pagedVars, reposVars>>

NextInbox ==
  \/ InboxCall
  \/ InboxCreatedRespond
  \/ InboxReviewRespond
  \/ InboxGlobalSettled
  \/ InboxUserRespond
  \/ ReposSearchRespond
  \/ ReposUserRespond
  \/ ReposOrgsRespond
  \/ InboxReposSettled
  \/ InboxWorkerResume
  \/ InboxWorkerRespond
  \/ InboxScanSettled

SpecInbox == InitInbox /\ [][NextInbox]_vars

(***************************************************************************)
(* C2 - C6                                                                 *)
(***************************************************************************)
SeqSet(q) == {q[k] : k \in DOMAIN q}

GlobalEps == {"created", "review"}

\* the global phase is over
GlobalOver == ib.pc \notin {"idle", "global"}

\* the endpoint answered every page with HTTP 200
AllPages200(ep) ==
  /\ glSeen[ep] # <<>>
  /\ \A k \in 1..Len(glSeen[ep]) : glSeen[ep][k].status = 200

\* every body the endpoint sent parsed as JSON
AllParsed(ep) == \A k \in 1..Len(glSeen[ep]) : glSeen[ep][k].jsonOk

\* the last answer of the endpoint was an HTTP 404
Ended404(ep) ==
  /\ glSeen[ep] # <<>>
  /\ glSeen[ep][Len(glSeen[ep])].status = 404

\* the endpoint's fetch failed, and not with an HTTP 404
FailedOtherwise(ep) == gl[ep].pc = "rejected" /\ ~Ended404(ep)

\* requests that belong to the fallback: current user, repository discovery,
\* per-repository pulls
FallbackRequests ==
  {k \in 1..Len(net) :
     net[k].url.ep \notin {"pulls/created", "pulls/requested_review"}}

\* C2 as stated: with HTTP 200 on every page of both global endpoints the
\* call issues no fallback request and returns the two global results.
C2_Original ==
  (GlobalOver /\ AllPages200("created") /\ AllPages200("review")) =>
    /\ FallbackRequests = {}
    /\ ib.pc = "returned"
    /\ ib.created = ConcatPages(glSeen["created"])
    /\ ib.reviewRequested = ConcatPages(glSeen["review"])

\* C2 (amended): with HTTP 200 on every page of both global endpoints the
\* call never enters fallback mode and issues no current-user, discovery or
\* per-repository request; when every body parses as JSON it returns exactly
\* the two global results, and otherwise it rejects with the parse error.
C2_GlobalNoFallback ==
  (GlobalOver /\ AllPages200("created") /\ AllPages200("review")) =>
    /\ FallbackRequests = {}
    /\ ib.dbg.fallbackUsed = "false"
    /\ IF AllParsed("created") /\ AllParsed("review")
         THEN /\ ib.pc = "returned"
              /\ ib.created = ConcatPages(glSeen["created"])
              /\ ib.reviewRequested = ConcatPages(glSeen["review"])
         ELSE ib.pc = "rejected" /\ ib.error = JsonFailed

\* both global endpoints answered two pages with 200 and the call returned
\* more than a page of each
C2_Witness ==
  /\ ib.pc = "returned"
  /\ AllPages200("created") /\ AllPages200("review")
  /\ Len(ib.created) > PER_PAGE
  /\ Len(ib.reviewRequested) > PER_PAGE

\* the pull requests the scan obtained: the items of every repository whose
\* fetch returned
ScannedPulls ==
  UNION { SeqSet(scans[k].items) : k \in {j \in DOMAIN scans : scans[j].end = "returned"} }

C4_Original ==
  GlobalOver =>
    \A ep \in GlobalEps :
      FailedOtherwise(ep) => (ib.pc = "rejected" /\ ib.error = gl[ep].error)

\* C4 (amended): when a global request fails otherwise than with HTTP 404 and
\* the other one did not fail with HTTP 404, the call rejects, returns no
\* result and issues no fallback request; the failure it rejects with is the
\* created request's if that one failed, else the review request's.  When the
\* other request failed with HTTP 404 the call enters fallback mode instead,
\* and the failure is only recorded in the debug errors.
C4_GlobalFailureSurfaced ==
  (GlobalOver /\ (FailedOtherwise("created") \/ FailedOtherwise("review"))) =>
    IF Ended404("created") \/ Ended404("review")
      THEN /\ ib.dbg.fallbackUsed = "true"
           /\ \A ep \in GlobalEps :
                FailedOtherwise(ep) =>
                  \E k \in 1..Len(ib.dbg.errors) :
                    /\ ib.dbg.errors[k].type = gl[ep].error.type
                    /\ ib.dbg.errors[k].status = gl[ep].error.status
      ELSE /\ ib.pc = "rejected"
           /\ ib.error = (IF gl["created"].pc = "rejected"
                            THEN gl["created"].error ELSE gl["review"].error)
           /\ ib.errorDebug
           /\ FallbackRequests = {}

\* both global requests failed, with different failures, none a 404
C4_Witness ==
  /\ ib.pc = "rejected"
  /\ FailedOtherwise("created") /\ FailedOtherwise("review")
  /\ gl["created"].error # gl["review"].error

\* the workers whose pull-request fetch is in flight
InFlight == {w \in DOMAIN wk : wk[w].pc = "fetch"}

\* C5: at most 6 per-repository pull-request fetches are in flight.
C5_AtMostSixInFlight == Cardinality(InFlight) <= 6

\* six fetches in flight after an earlier one has settled, with more
\* repositories than workers
C5_Witness ==
  /\ Cardinality(InFlight) = 6
  /\ Len(mc.items) > 6
  /\ \E j \in DOMAIN scans : scans[j].end \in {"returned", "rejected"}

\* C6: once the scan has started the call does not reject; when it returns,
\* every repository has been scanned, a repository whose fetch failed has an
\* empty partition, every other one has the partition of its own pull
\* requests, and perRepoFailures counts the failed fetches.
C6_RepoFailureIsolated ==
  /\ ib.pc = "rejected" => mc = mapIdle
  /\ (ib.pc = "returned" /\ ib.dbg.fallbackUsed = "true") =>
       LET login == ib.currentUser.login IN
         /\ ib.dbg.perRepoFailures =
              Cardinality({j \in DOMAIN scans : scans[j].end = "rejected"})
         /\ \A j \in DOMAIN scans :
              /\ scans[j].end \in {"returned", "rejected", "skipped"}
              /\ scans[j].end = "rejected" =>
                   mc.results[j].created = <<>> /\ mc.results[j].reviewRequested = <<>>
              /\ scans[j].end = "returned" =>
                   /\ SeqSet(mc.results[j].created) =
                        {pr \in SeqSet(scans[j].items) : pr.user = login}
                   /\ SeqSet(mc.results[j].reviewRequested) =
                        {pr \in SeqSet(scans[j].items) :
                           login \in SeqSet(pr.requested_reviewers)}
         /\ SeqSet(ib.created) = UNION {SeqSet(mc.results[j].created) : j \in DOMAIN scans}
         /\ SeqSet(ib.reviewRequested) =
              UNION {SeqSet(mc.results[j].reviewRequested) : j \in DOMAIN scans}

\* a returned scan in which two fetches failed, one of them after the others
\* had delivered pull requests
C6_Witness ==
  /\ ib.pc = "returned"
  /\ ib.dbg.perRepoFailures >= 2
  /\ ib.created # <<>>
  /\ \E j \in DOMAIN scans : scans[j].end = "rejected" /\ j > 0

(***************************************************************************)
(* SpecRefresh: one view of a command, its refreshes one after the other   *)
(***************************************************************************)
\* upper bound on the number of refreshes of a view
MaxRefreshes == 2
\* upper bound on the number of times the clock is seen to advance
MaxTicks == 2

\* Date.now() when the view opens, in milliseconds
Epoch == 1000000000

Commands == {"inbox", "repos"}

\* the cacheTtlMinutes preference: not a number (unset), or 1
TtlPreferences == {[nan |-> TRUE, n |-> 0], [nan |-> FALSE, n |-> 1]}

\* what an earlier run of the command left in LocalStorage: nothing, or a
\* payload saved at Epoch (for the inbox also one that the status
\* enrichment wrote back with a statusById)
EarlierCaches(cmd) ==
  IF cmd = "inbox"
    THEN { NoCache,
           saveCachedInbox(InboxPayload(<<PR(1, "alice", <<>>)>>, <<>>, NoStatus), Epoch),
           saveCachedInbox(InboxPayload(<<PR(1, "alice", <<>>)>>,
                                        <<PR(2, "bob", <<"alice">>)>>,
                                        StatusById((1 :> "success") @@ (2 :> "pending"))),
                           Epoch) }
    ELSE { NoCache, saveCachedRepos(<<Repo(1, "old"), Repo(2, "old")>>, Epoch) }

\* what the live fetch of a command can settle with
LiveOutcomes(cmd, accessToken) ==
  IF cmd = "inbox"
    THEN { LiveReturned(InboxPayload(<<PR(3, "alice", <<>>)>>,
                                     <<PR(4, "bob", <<"alice">>)>>, NoStatus), "global"),
           LiveReturned(InboxPayload(<<>>, <<>>, NoStatus), "fallback"),
           LiveRejected(GiteaApiError(500, "Internal Server Error",
                                      ApiUrl(CreatedUrl, 1, accessToken)), "global"),
           LiveRejected(IdentityError, "fallback") }
    ELSE { LiveReturned(ReposPayload(<<Repo(2, "new"), Repo(3, "new")>>), "null"),
           LiveReturned(ReposPayload(<<>>), "null"),
           LiveRejected(PlainApiError(500, "Internal Server Error"), "null"),
           LiveRejected(FetchFailed, "null") }

\* the clock advances by a millisecond, or by a millisecond less than the
\* time to live
TickSteps(ttl) == {1, ttl * 60000 - 1}

InitRefresh ==
  /\ net = <<>>
  /\ srv = "refresh"
  /\ pg = fetchPagedIdle
  /\ pgSeen = <<>>
  /\ fr = fetchAllReposIdle
  /\ frSeen = <<>>
  /\ InboxIdle
  /\ ExtraIdle
  /\ \E cmd \in Commands, baseUrl \in {0, 1}, tok \in Tokens, pref \in TtlPreferences :
       /\ cfg = [cmd |-> cmd, baseUrl |-> baseUrl, accessToken |-> tok,
                 ttlPref |-> pref]
       /\ cache \in EarlierCaches(cmd)
  /\ now = Epoch
  /\ ticks = 0
  /\ view = viewInit
  /\ rfs = <<>>

\* isValidBaseUrl(baseUrl), and for the inbox Boolean(accessToken): the view
\* renders its list and not the setup form
ListShown ==
  /\ view.stage = "mounted"
  /\ cfg.baseUrl # 0
  /\ cfg.cmd = "inbox" => cfg.accessToken # ""

\* no call of the refresh callback is in progress
Quiet == \A k \in DOMAIN rfs : rfs[k].pc = "done"

Frame(k) == [view |-> view, cache |-> cache, r |-> rfs[k], reqs |-> <<>>]

\* the variables take frame F of call k
SetFrame(F, k) ==
  /\ view' = F.view
  /\ cache' = F.cache
  /\ rfs' = [rfs EXCEPT ![k] = F.r]
  /\ net' = net \o F.reqs

\* the number of calls of the refresh callback so far
Calls == IF rfs = <<>> THEN 0 ELSE rfs[Len(rfs)].no

\* the refresh callback is called with the view state v and the cache c; the
\* records of the calls that have returned are dropped
CallRefresh(v, c, force, baseUrl, accessToken) ==
  LET F == [view |-> v, cache |-> c,
            r |-> NewRefresh(Calls + 1, force, baseUrl, accessToken, c, Len(net), now),
            reqs |-> <<>>]
      G == IF cfg.cmd = "inbox" THEN refreshInboxEnter(F) ELSE refreshReposEnter(F)
  IN  /\ view' = G.view
      /\ cache' = G.cache
      /\ rfs' = Append(SelectSeq(rfs, LAMBDA r : r.pc # "done"), G.r)
      /\ net' = net \o G.reqs

\* the stored settings have loaded and the mount effect runs: the inbox
\* calls refreshInbox(false) when base URL and token are there, the
\* repositories command calls refreshRepos() in any case
Mount ==
  /\ view.stage = "init"
  /\ LET v == [view EXCEPT !.stage = "mounted"] IN
       IF cfg.cmd = "inbox" /\ (cfg.baseUrl = 0 \/ cfg.accessToken = "")
         THEN /\ view' = [v EXCEPT !.isLoading = FALSE]
              /\ UNCHANGED <<cache, rfs, net>>
         ELSE CallRefresh(v, cache, FALSE, cfg.baseUrl, cfg.accessToken)
  /\ UNCHANGED <<cfg, now, ticks, srv, extraVars, pagedVars, reposVars, inboxVars>>

\* the setup form is saved: setBaseUrl and setAccessToken change the
\* callback, and the mount effect runs again
SetupSaved ==
  /\ view.stage = "mounted"
  /\ ~ListShown
  /\ Quiet
  /\ Calls < MaxRefreshes
  /\ \E tok \in Tokens :
       /\ cfg.cmd = "inbox" => tok # ""
       /\ cfg' = [cfg EXCEPT !.baseUrl = 1, !.accessToken = tok]
       /\ CallRefresh(view, cache, FALSE, 1, tok)
  /\ UNCHANGED <<now, ticks, srv, extraVars, pagedVars, reposVars, inboxVars>>

\* the Refresh action of a list item (for the repositories also of the
\* error item): refresh(true)
UserRefresh ==
  /\ ListShown
  /\ \/ view.created # <<>>
     \/ view.reviewRequested # <<>>
     \/ view.repos # <<>>
     \/ cfg.cmd = "repos" /\ ~view.errorMessage.isNull
  /\ Quiet
  /\ Calls < MaxRefreshes
  /\ CallRefresh(view, cache, TRUE, cfg.baseUrl, cfg.accessToken)
  /\ UNCHANGED <<cfg, now, ticks, srv, extraVars, pagedVars, reposVars, inboxVars>>

\* the Clear Cache action of a list item: both items are removed, then
\* refresh(true)
UserClearCache ==
  /\ ListShown
  /\ view.created # <<>> \/ view.reviewRequested # <<>> \/ view.repos # <<>>
  /\ Quiet
  /\ Calls < MaxRefreshes
  /\ CallRefresh(view, clearCache, TRUE, cfg.baseUrl, cfg.accessToken)
  /\ UNCHANGED <<cfg, now, ticks, srv, extraVars, pagedVars, reposVars, inboxVars>>

\* the cache read of a refresh resolves
RefreshLoaded ==
  /\ \E k \in DOMAIN rfs :
       /\ rfs[k].pc = "load"
       /\ LET ttl == cacheTtlMinutes(cfg.ttlPref) IN
            SetFrame(IF cfg.cmd = "inbox" THEN refreshInboxLoaded(Frame(k), ttl, now)
                                          ELSE refreshReposLoaded(Frame(k), ttl, now), k)
  /\ UNCHANGED <<cfg, now, ticks, srv, extraVars, pagedVars, reposVars, inboxVars>>

\* the live fetch of a refresh settles
LiveFetchSettled ==
  /\ \E k \in DOMAIN rfs :
       /\ rfs[k].pc = "fetch"
       /\ \E o \in LiveOutcomes(cfg.cmd, rfs[k].accessToken) :
            LET F == [Frame(k) EXCEPT !.r.settledAt = now] IN
              SetFrame(CASE cfg.cmd = "inbox" /\ o.ok -> refreshInboxSucceeded(F, o, now)
                         [] cfg.cmd = "inbox" /\ ~o.ok -> refreshInboxFailed(F, o)
                         [] cfg.cmd = "repos" /\ o.ok -> refreshReposSucceeded(F, o, now)
                         [] cfg.cmd = "repos" /\ ~o.ok -> refreshReposFailed(F, o), k)
  /\ UNCHANGED <<cfg, now, ticks, srv, extraVars, pagedVars, reposVars, inboxVars>>

\* the save or the toast a refresh awaits resolves: finally
RefreshSettled ==
  /\ \E k \in DOMAIN rfs :
       /\ rfs[k].pc \in {"save", "toast"}
       /\ SetFrame(refreshFinally(Frame(k)), k)
  /\ UNCHANGED <<cfg, now, ticks, srv, extraVars, pagedVars, reposVars, inboxVars>>

\* time passes
Tick ==
  /\ view.stage = "mounted"
  /\ ticks < MaxTicks
  /\ \E d \in TickSteps(cacheTtlMinutes(cfg.ttlPref)) : now' = now + d
  /\ ticks' = ticks + 1
  /\ UNCHANGED <<cfg, cache, view, rfs, net, srv, extraVars, pagedVars, reposVars, inboxVars>>

NextRefresh ==
  \/ Mount
  \/ SetupSaved
  \/ UserRefresh
  \/ UserClearCache
  \/ RefreshLoaded
  \/ LiveFetchSettled
  \/ RefreshSettled
  \/ Tick

SpecRefresh == InitRefresh /\ [][NextRefresh]_vars

(***************************************************************************)
(* C8 - C10                                                                *)
(***************************************************************************)
\* the time to live in milliseconds
TtlMs == cacheTtlMinutes(cfg.ttlPref) * 60000

\* both items of cache c are stored
Stored(c) == c.data.kind # "undefined" /\ c.time.kind # "undefined"

\* c holds a payload that is fresh at clock reading at
StoredFresh(c, at) == Stored(c) /\ at - c.time.n < TtlMs

\* the lists of a payload
PayloadLists(p) ==
  [created |-> p.created, reviewRequested |-> p.reviewRequested, repos |-> p.repos]

\* the cache holds exactly the lists of payload p, saved at clock reading t
HoldsSaved(p, t) ==
  /\ cache.time.kind = "digits" /\ cache.time.n = t
  /\ cache.data.kind = "json"
  /\ PayloadLists(cache.data.val) = PayloadLists(p)
  /\ ~cache.data.val.statusById.defined

\* call k of the refresh callback is the latest one
Latest(k) == k = Len(rfs)

\* the clock reading at which call k tested, or would have tested, freshness
TestedAt(k) == IF rfs[k].read THEN rfs[k].loadedAt ELSE rfs[k].startedAt

\* C8: a forced refresh with a configured base URL never reads the cache and
\* always calls the live fetch, which issues a request, whatever the age of
\* the cached entry; when the live fetch succeeds the cache holds the fetched
\* payload with the clock reading of that moment.
C8_ForcedRefresh ==
  \A k \in DOMAIN rfs :
    (rfs[k].force /\ rfs[k].baseUrl # 0) =>
      /\ ~rfs[k].read
      /\ rfs[k].fetched
      /\ Len(net) > rfs[k].net0
      /\ (rfs[k].outcome.ok /\ Latest(k)) =>
           HoldsSaved(rfs[k].outcome.payload, rfs[k].settledAt)

\* a forced refresh made while the cached entry was fresh has settled, later
\* on the clock, and has replaced the entry
C8_Witness ==
  \E k \in DOMAIN rfs :
    /\ rfs[k].force
    /\ rfs[k].pc = "done"
    /\ rfs[k].outcome.ok
    /\ StoredFresh(rfs[k].cache0, rfs[k].startedAt)
    /\ rfs[k].settledAt > rfs[k].startedAt
    /\ cache # rfs[k].cache0

\* what C9 says of call k, once it is past its cache read
NonForcedOutcome(k) ==
  LET r == rfs[k]
      fresh == StoredFresh(r.cache0, TestedAt(k))
  IN  /\ Stored(r.cache0) =>
           /\ r.fetched => r.lists0 = PayloadLists(r.cache0.data.val)
           /\ (r.pc = "fetch" /\ Latest(k)) =>
                ListsOf(view) = PayloadLists(r.cache0.data.val)
      /\ fresh =>
           /\ ~r.fetched
           /\ Latest(k) =>
                /\ Len(net) = r.net0
                /\ ListsOf(view) = PayloadLists(r.cache0.data.val)
                /\ cache = r.cache0
      /\ ~fresh =>
           /\ r.fetched
           /\ Len(net) > r.net0
           /\ (r.outcome.ok /\ Latest(k)) =>
                /\ ListsOf(view) = PayloadLists(r.outcome.payload)
                /\ HoldsSaved(r.outcome.payload, r.settledAt)

\* C9 as stated: every non-forced refresh shows a cached payload before any
\* request, stops without a request when it is fresh, and otherwise fetches
\* live and on success replaces the shown data and the cache entry.
C9_Original ==
  \A k \in DOMAIN rfs :
    (~rfs[k].force /\ rfs[k].pc \notin {"enter", "load"}) => NonForcedOutcome(k)

\* C9 (amended): the same of every non-forced refresh made with a configured
\* base URL (and, for the inbox, a configured access token); until the cache
\* read resolves such a refresh issues no request.
C9_NonForcedRefresh ==
  \A k \in DOMAIN rfs :
    (/\ ~rfs[k].force
     /\ rfs[k].baseUrl # 0
     /\ cfg.cmd = "inbox" => rfs[k].accessToken # "") =>
      /\ rfs[k].read \/ rfs[k].pc = "load"
      /\ (rfs[k].pc = "load" /\ Latest(k)) => Len(net) = rfs[k].net0
      /\ rfs[k].pc \notin {"enter", "load"} => NonForcedOutcome(k)

\* a non-forced refresh has found a cached payload exactly one time to live
\* old, has shown it, fetched live and replaced the lists and the entry
C9_Witness ==
  \E k \in DOMAIN rfs :
    /\ ~rfs[k].force
    /\ rfs[k].pc = "done"
    /\ Stored(rfs[k].cache0)
    /\ rfs[k].loadedAt - rfs[k].cache0.time.n = TtlMs
    /\ rfs[k].lists0 = PayloadLists(rfs[k].cache0.data.val)
    /\ rfs[k].outcome.ok
    /\ rfs[k].outcome.payload.shape # "none"
    /\ ListsOf(view) # rfs[k].lists0

Pull(id, sha, repository, baseRepo, html_url) ==
  [id |-> id, sha |-> sha, repository |-> repository, baseRepo |-> baseRepo,
   html_url |-> html_url]

Url(segments) == [valid |-> TRUE, path |-> segments]
NotAUrl == [valid |-> FALSE, path |-> <<>>]

\* null, as the full name or the { owner, name } of no repository
NoFullName == <<>>
NoRepo == [ok |-> FALSE, owner |-> "", name |-> ""]

\* parts = parsed.pathname.split("/").filter(Boolean); the first two parts
\* when there are four and the third is "pulls" or "pull", else null
inferRepoFullNameFromPullUrl(url) ==
  LET parts == SelectSeq(url.path, LAMBDA seg : seg # "")
  IN  IF url.valid /\ Len(parts) >= 4 /\ parts[3] \in {"pulls", "pull"}
        THEN <<parts[1], parts[2]>>
        ELSE NoFullName

\* repository?.full_name || base?.repo?.full_name || inferRepo...(html_url)
getPullRepoFullName(pull) ==
  IF pull.repository # NoFullName THEN pull.repository
  ELSE IF pull.baseRepo # NoFullName THEN pull.baseRepo
  ELSE inferRepoFullNameFromPullUrl(pull.html_url)

\* const [owner, name] = full.split("/"); null when either is empty
getRepoOwnerAndName(pull) ==
  LET full == getPullRepoFullName(pull)
      owner == IF Len(full) >= 1 THEN full[1] ELSE ""
      name == IF Len(full) >= 2 THEN full[2] ELSE ""
  IN  IF full = NoFullName \/ owner = "" \/ name = "" THEN NoRepo
      ELSE [ok |-> TRUE, owner |-> owner, name |-> name]

\* the item is given "unknown" without a request whenever it has a
\* repository, with or without a head commit
NeedsNoFetchRepoOnly(pull) == ~getRepoOwnerAndName(pull).ok

\* if (!sha || !repo) return { id: pull.id, state: "unknown" }
NeedsNoFetch(pull) == pull.sha = "" \/ ~getRepoOwnerAndName(pull).ok

\* the request fetchCommitStatus issues
StatusRequest(repo, sha, accessToken) ==
  [url |-> [ep |-> "commits/status", owner |-> repo.owner, name |-> repo.name,
            sha |-> sha],
   auth |-> accessToken]

\* the body { state } of a combined status, and a body that has no state
StatusBody(state) == Response(200, "OK", "", TRUE, FALSE, <<state>>, NoTotal)
StatusBodyNoState == Response(200, "OK", "", TRUE, FALSE, <<>>, NoTotal)

\* what fetchCommitStatus settles with on response r: it rejects when the
\* fetch threw, the response is not ok or the body does not parse, and
\* returns payload.state (possibly undefined) otherwise
fetchCommitStatus(r) ==
  IF Threw(r) \/ ~Ok(r) \/ ~r.jsonOk
    THEN [rejected |-> TRUE, defined |-> FALSE, state |-> ""]
  ELSE IF r.body = <<>>
    THEN [rejected |-> FALSE, defined |-> FALSE, state |-> ""]
  ELSE [rejected |-> FALSE, defined |-> TRUE, state |-> r.body[1]]

\* a failed fetch is reported as the state "error"
StateOfRejectedIsError(s) ==
  IF s.rejected THEN "error" ELSE IF ~s.defined THEN "unknown" ELSE s.state

\* try { return { state: state ?? "unknown" } } catch { return "unknown" }
StateOf(s) ==
  IF s.rejected \/ ~s.defined THEN "unknown" ELSE s.state

\* The promise of one item: state is what it resolved with once settled;
\* req is the place of its request in the log (0: it issued none) and resp
\* the response it received.
Unsettled(req) ==
  [settled |-> FALSE, state |-> "", req |-> req, resp |-> NetworkFailure]
Resolved(p, state, r) ==
  [p EXCEPT !.settled = TRUE, !.state = state, !.resp = r]

\* the first item with an id decides the state of the id
NextStatusFirstWins(all, results) ==
  [id \in {all[i].id : i \in DOMAIN all} |->
     LET first == CHOOSE i \in DOMAIN all :
                    /\ all[i].id = id
                    /\ \A j \in DOMAIN all : all[j].id = id => j >= i
     IN  results[first].state]

\* for (const r of results) next[r.id] = r.state: a later item replaces an
\* earlier one with the same id
NextStatus(all, results) ==
  [id \in {all[i].id : i \in DOMAIN all} |->
     LET last == CHOOSE i \in DOMAIN all :
                   /\ all[i].id = id
                   /\ \A j \in DOMAIN all : all[j].id = id => j <= i
     IN  results[last].state]

\* The effect body up to its first suspension.  E gathers the view, the
\* cache, the run of the effect and the requests it issues.
RECURSIVE enrichSpawn(_, _, _, _)
enrichSpawn(all, i, issued, accessToken) ==
  IF i > Len(all) THEN [results |-> <<>>, reqs |-> <<>>]
  ELSE IF NeedsNoFetch(all[i])
    THEN LET rest == enrichSpawn(all, i + 1, issued, accessToken)
         IN  [rest EXCEPT !.results =
                <<Resolved(Unsettled(0), "unknown", NetworkFailure)>> \o @]
    ELSE LET rest == enrichSpawn(all, i + 1, issued + 1, accessToken)
         IN  [results |-> <<Unsettled(issued + 1)>> \o rest.results,
              reqs |-> <<StatusRequest(getRepoOwnerAndName(all[i]), all[i].sha,
                                       accessToken)>> \o rest.reqs]

\* the effect waits for the settings, a valid base URL and a token
enrichGuard(v, baseUrl, accessToken) ==
  v.stage = "mounted" /\ baseUrl # 0 /\ accessToken # ""

\* Promise.all(...).then, once every item has settled: nothing when the
\* effect was cleaned up, else setStatusById(next) and the cache read of
\* the write-back
enrichThen(E) ==
  IF \E i \in DOMAIN E.en.results : ~E.en.results[i].settled THEN E
  ELSE IF ~E.en.isMounted THEN [E EXCEPT !.en.pc = "discarded"]
  ELSE LET next == NextStatus(E.en.all, E.en.results)
       IN  [E EXCEPT !.view.statusById = next, !.en.next = next,
                     !.en.pc = "load"]

\* the effect runs: an empty list empties statusById; otherwise every item
\* starts, the ones that need a status issue their request
enrichStart(E, accessToken, issued) ==
  LET all == E.view.created \o E.view.reviewRequested
      sp == enrichSpawn(all, 1, issued, accessToken)
  IN  IF all = <<>>
        THEN [E EXCEPT !.view.statusById = <<>>,
                       !.en = [enrichIdle EXCEPT !.pc = "done"]]
        ELSE enrichThen([E EXCEPT !.en = [pc |-> "fetching", all |-> all,
                                          results |-> sp.results,
                                          isMounted |-> TRUE, next |-> <<>>],
                                  !.reqs = sp.reqs])

\* item i receives response r
enrichRespond(E, i, r) ==
  enrichThen([E EXCEPT !.en.results[i] =
                         Resolved(@, StateOf(fetchCommitStatus(r)), r)])

\* loadCachedInbox(baseUrl).then: a cached payload is saved again with
\* statusById: next, at clock reading nowMs
enrichWriteBack(E, nowMs) ==
  LET cached == loadCachedInbox(E.cache)
  IN  IF ~cached.present THEN [E EXCEPT !.en.pc = "done"]
      ELSE [E EXCEPT !.en.pc = "done",
                     !.cache = saveCachedInbox(
                                 InboxPayload(cached.payload.created,
                                              cached.payload.reviewRequested,
                                              StatusById(E.en.next)), nowMs)]

\* the cleanup of the effect: isMounted = false
enrichCleanup(E) == [E EXCEPT !.en.isMounted = FALSE]

(***************************************************************************)
(* SpecFresh: the freshness test, applied to what the cache holds          *)
(***************************************************************************)
\* the times an entry of the cache can carry: zero, the first millisecond,
\* times a time to live or so before Epoch, Epoch, and times after it
CachedTimes ==
  {0, 1, Epoch - 3600001, Epoch - 3600000, Epoch - 3599999, Epoch - 60000,
   Epoch - 59999, Epoch, Epoch + 1, Epoch + 3600000}

\* what Date.now() reads when the test is made
ClockReadings == {1000, 59999, 60000, Epoch, Epoch + 1}

\* the payload an earlier run of the command saved
SavedPayload(cmd) ==
  IF cmd = "inbox" THEN InboxPayload(<<PR(1, "alice", <<>>)>>, <<>>, NoStatus)
  ELSE ReposPayload(<<Repo(1, "old")>>)

InitFresh ==
  /\ net = <<>>
  /\ srv = "fresh"
  /\ pg = fetchPagedIdle
  /\ pgSeen = <<>>
  /\ fr = fetchAllReposIdle
  /\ frSeen = <<>>
  /\ InboxIdle
  /\ ExtraIdle
  /\ \E cmd \in Commands, pref \in TtlPreferences :
       cfg = [cmd |-> cmd, baseUrl |-> 1, accessToken |-> "t0k", ttlPref |-> pref]
  /\ \E t \in CachedTimes :
       cache = [data |-> JsonItem(SavedPayload(cfg.cmd)), time |-> TimeItem(t)]
  /\ now \in ClockReadings
  /\ ticks = 0
  /\ view = viewInit
  /\ rfs = <<>>

\* the non-forced refresh reads the cache and tests the entry it found:
\* const isFresh = cached.timestamp && Date.now() - cached.timestamp < ...
FreshnessTest ==
  /\ ev = NoEval
  /\ LET cached == IF cfg.cmd = "inbox" THEN loadCachedInbox(cache)
                   ELSE loadCachedRepos(cache)
         ttl == cacheTtlMinutes(cfg.ttlPref)
     IN  /\ cached.present
         /\ ev' = [pc |-> "out", timestamp |-> cached.timestamp, now |-> now,
                   ttlMinutes |-> ttl, isFresh |-> isFresh(cached, now, ttl)]
  /\ UNCHANGED <<en, net, srv, pagedVars, reposVars, inboxVars, refreshVars>>

NextFresh == FreshnessTest

SpecFresh == InitFresh /\ [][NextFresh]_vars

\* C11: the freshness test of a cached entry is true exactly when
\* now - timestamp < ttlMinutes * 60000, for every timestamp the cache can
\* hold, zero and times later than now included.
C11_Original ==
  ev.pc = "out" =>
    (ev.isFresh <=> ev.now - ev.timestamp < ev.ttlMinutes * 60000)

\* C11, away from zero: an entry whose time is not zero is fresh exactly
\* when now - timestamp < ttlMinutes * 60000.
C11_FreshUnlessZero ==
  (ev.pc = "out" /\ ev.timestamp # 0) =>
    (ev.isFresh <=> ev.now - ev.timestamp < ev.ttlMinutes * 60000)

\* an entry with time zero, read within its time to live of time zero, is
\* reported as not fresh
C11_ZeroNeverFresh ==
  (ev.pc = "out" /\ ev.timestamp = 0) => ~ev.isFresh

(***************************************************************************)
(* SpecEnrich: the enrichment effect of a mounted inbox view               *)
(***************************************************************************)
\* pull requests as the server returned them: with and without a head
\* commit, and with a repository named by repository, by base.repo, by the
\* web URL only, by a full name that does not split, or by nothing
Pulls ==
  [ full    |-> Pull(1, "a1", <<"alice", "app">>, NoFullName,
                     Url(<<"", "alice", "app", "pulls", "1">>)),
    noSha   |-> Pull(2, "", <<"alice", "app">>, NoFullName,
                     Url(<<"", "alice", "app", "pulls", "2">>)),
    issue   |-> Pull(3, "c3", NoFullName, NoFullName,
                     Url(<<"", "alice", "app", "issues", "3">>)),
    base    |-> Pull(4, "d4", NoFullName, <<"bob", "lib">>, NotAUrl),
    byUrl   |-> Pull(5, "e5", NoFullName, NoFullName,
                     Url(<<"", "carol", "site", "pull", "5">>)),
    oneSeg  |-> Pull(6, "f6", <<"alice">>, <<"bob", "lib">>,
                     Url(<<"", "bob", "lib", "pulls", "6">>)),
    noOwner |-> Pull(7, "g7", NoFullName, <<"", "lib">>, NotAUrl),
    short   |-> Pull(8, "h8", NoFullName, NoFullName, Url(<<"", "pulls", "8">>)) ]

\* the lists the view shows when the effect runs; a pull request can be in
\* both
CreatedShown ==
  { <<>>, <<Pulls.full>>, <<Pulls.full, Pulls.noSha>>, <<Pulls.issue, Pulls.base>>,
    <<Pulls.oneSeg, Pulls.byUrl>>, <<Pulls.noOwner>> }
ReviewShown ==
  { <<>>, <<Pulls.full>>, <<Pulls.byUrl, Pulls.noSha>>, <<Pulls.short, Pulls.base>>,
    <<Pulls.issue>> }

\* what the commit-status endpoint can answer
StatusResponses ==
  { StatusBody("success"), StatusBody("pending"), StatusBody("warning"),
    StatusBodyNoState, OkBadJson, HttpError(404, "Not Found", ""),
    NetworkFailure }

InitEnrich ==
  /\ net = <<>>
  /\ srv = "enrich"
  /\ pg = fetchPagedIdle
  /\ pgSeen = <<>>
  /\ fr = fetchAllReposIdle
  /\ frSeen = <<>>
  /\ InboxIdle
  /\ ExtraIdle
  /\ cfg = [cmd |-> "inbox", baseUrl |-> 1, accessToken |-> "tok-abcdefgh-1234",
            ttlPref |-> [nan |-> TRUE, n |-> 0]]
  /\ \E created \in CreatedShown, reviewRequested \in ReviewShown :
       /\ view = [viewInit EXCEPT !.stage = "mounted", !.isLoading = FALSE,
                                  !.created = created,
                                  !.reviewRequested = reviewRequested]
       /\ cache \in { NoCache,
                      saveCachedInbox(InboxPayload(created, reviewRequested, NoStatus),
                                      Epoch) }
  /\ now = Epoch + 1
  /\ ticks = 0
  /\ rfs = <<>>

EnrichFrame == [view |-> view, cache |-> cache, en |-> en, reqs |-> <<>>]

\* the variables take frame E
SetEnrichFrame(E) ==
  /\ view' = E.view
  /\ cache' = E.cache
  /\ en' = E.en
  /\ net' = net \o E.reqs

EnrichStart ==
  /\ en.pc = "idle"
  /\ enrichGuard(view, cfg.baseUrl, cfg.accessToken)
  /\ SetEnrichFrame(enrichStart(EnrichFrame, cfg.accessToken, Len(net)))
  /\ UNCHANGED <<ev, cfg, now, ticks, rfs, srv, pagedVars, reposVars, inboxVars>>

EnrichRespond ==
  /\ en.pc = "fetching"
  /\ \E i \in DOMAIN en.results, r \in StatusResponses :
       /\ ~en.results[i].settled
       /\ SetEnrichFrame(enrichRespond(EnrichFrame, i, r))
  /\ UNCHANGED <<ev, cfg, now, ticks, rfs, srv, pagedVars, reposVars, inboxVars>>

EnrichWriteBack ==
  /\ en.pc = "load"
  /\ SetEnrichFrame(enrichWriteBack(EnrichFrame, now))
  /\ UNCHANGED <<ev, cfg, now, ticks, rfs, srv, pagedVars, reposVars, inboxVars>>

\* the view is closed, before or after its settings have loaded: the
\* cleanup of the settings effect keeps setSettingsLoaded from running, and
\* the cleanup of the enrichment effect runs when the effect has returned
\* one; the mount effect that calls refreshInbox returns no cleanup
Unmount ==
  /\ view.stage \in {"init", "mounted"}
  /\ LET E == [EnrichFrame EXCEPT !.view.stage = "unmounted"]
     IN  SetEnrichFrame(IF en.pc = "fetching" THEN enrichCleanup(E) ELSE E)
  /\ UNCHANGED <<ev, cfg, now, ticks, rfs, srv, pagedVars, reposVars, inboxVars>>

NextEnrich ==
  \/ EnrichStart
  \/ EnrichRespond
  \/ EnrichWriteBack
  \/ Unmount

SpecEnrich == InitEnrich /\ [][NextEnrich]_vars

(***************************************************************************)
(* C12..C14: what the enrichment assigns                                   *)
(***************************************************************************)
\* the full name splits into a non-empty owner and a non-empty name
NamesRepo(full) ==
  /\ Len(full) >= 2
  /\ full[1] # ""
  /\ full[2] # ""

\* the path of the web URL reads /{owner}/{repo}/pulls/{n}
UrlNamesRepo(url) ==
  /\ url.valid
  /\ LET parts == SelectSeq(url.path, LAMBDA seg : seg # "")
     IN  Len(parts) >= 4 /\ parts[3] \in {"pulls", "pull"}

\* some source of the pull request names its repository
RepoResolvable(pull) ==
  \/ NamesRepo(pull.repository)
  \/ NamesRepo(pull.baseRepo)
  \/ UrlNamesRepo(pull.html_url)

\* the enrichment has handed its result to the view
Enriched == en.pc \in {"load", "done"} /\ en.all # <<>>

\* C12: a pull request with no head commit SHA, or whose repository no
\* source resolves, resolves to "unknown" at once and issues no request:
\* every request of the log belongs to an item that has a SHA and a
\* resolvable repository, and once the enrichment has completed the id of
\* such a pull request is mapped to "unknown".
C12_UnknownWithoutRequest ==
  /\ \A i \in DOMAIN en.all :
       (en.all[i].sha = "" \/ ~RepoResolvable(en.all[i])) =>
         /\ en.results[i].settled
         /\ en.results[i].state = "unknown"
         /\ en.results[i].req = 0
         /\ Enriched => view.statusById[en.all[i].id] = "unknown"
  /\ \A k \in DOMAIN net :
       \E i \in DOMAIN en.all :
         /\ en.results[i].req = k
         /\ en.all[i].sha # "" /\ RepoResolvable(en.all[i])
         /\ net[k].url.sha = en.all[i].sha

\* a completed enrichment of a list that holds a pull request without a
\* SHA, one without a resolvable repository, and one that was fetched
C12_Witness ==
  /\ Enriched
  /\ \E i, j, k \in DOMAIN en.all :
       /\ en.all[i].sha = "" /\ RepoResolvable(en.all[i])
       /\ en.all[j].sha # "" /\ ~RepoResolvable(en.all[j])
       /\ en.results[k].req # 0 /\ en.results[k].state = "success"
       /\ view.statusById[en.all[i].id] = "unknown"
       /\ view.statusById[en.all[j].id] = "unknown"

\* the commit-status fetch that received r failed: the fetch threw, the
\* response is not a success, or its body does not parse
FetchFailedOn(r) == r.status = 0 \/ r.status \notin 200..299 \/ ~r.jsonOk

\* what a fetch that did not fail returned, "unknown" standing for a body
\* without a state
ReturnedOn(r) == IF r.body = <<>> THEN "unknown" ELSE r.body[1]

\* item i of the list issued a request and has its response
Fetched(i) == en.results[i].req # 0 /\ en.results[i].settled

\* no later item of the list is the same pull request
LastOfItsId(i) ==
  \A j \in DOMAIN en.all : en.all[j].id = en.all[i].id => j <= i

\* C13 as stated: once the enrichment has completed, the id of every pull
\* request whose commit-status fetch failed is mapped to "unknown", and
\* every other fetched pull request has the state its own fetch returned.
C13_Original ==
  Enriched =>
    \A i \in DOMAIN en.all :
      Fetched(i) =>
        view.statusById[en.all[i].id] =
          IF FetchFailedOn(en.results[i].resp) THEN "unknown"
          ELSE ReturnedOn(en.results[i].resp)

\* C13, amended: a failed commit-status fetch never keeps the enrichment
\* from completing; the failed item resolves to "unknown", every other item
\* to what its own fetch returned, and statusById maps an id to the result
\* of the last item of [...created, ...reviewRequested] that carries it.
C13_FailureIsolated ==
  /\ (\A i \in DOMAIN en.results : en.results[i].settled) => en.pc # "fetching"
  /\ \A i \in DOMAIN en.all :
       Fetched(i) =>
         LET mine == IF FetchFailedOn(en.results[i].resp) THEN "unknown"
                     ELSE ReturnedOn(en.results[i].resp)
         IN  /\ en.results[i].state = mine
             /\ (Enriched /\ LastOfItsId(i)) => view.statusById[en.all[i].id] = mine

\* a completed enrichment in which the fetch of one pull request failed and
\* the fetch of another returned "success"
C13_Witness ==
  /\ Enriched
  /\ \E i, j \in DOMAIN en.all :
       /\ en.all[i].id # en.all[j].id
       /\ Fetched(i) /\ FetchFailedOn(en.results[i].resp)
       /\ Fetched(j) /\ ~FetchFailedOn(en.results[j].resp)
       /\ view.statusById[en.all[i].id] = "unknown"
       /\ view.statusById[en.all[j].id] = "success"

\* the five combined check states
CombinedStates == {"success", "failure", "pending", "error", "unknown"}

\* C14: every value of the status map the enrichment produces is one of
\* success, failure, pending, error and unknown, whatever state string the
\* commit-status endpoint returns.
C14_Original ==
  Enriched =>
    \A id \in DOMAIN view.statusById : view.statusById[id] \in CombinedStates

\* C14, for the answers that name one of the five states: when every
\* response received carries one of them, has no state or is a failure,
\* every value of the status map is one of the five.
C14_FiveStatesPassThrough ==
  (/\ Enriched
   /\ \A i \in DOMAIN en.all :
        (Fetched(i) /\ ~FetchFailedOn(en.results[i].resp)) =>
          ReturnedOn(en.results[i].resp) \in CombinedStates)
  => \A id \in DOMAIN view.statusById : view.statusById[id] \in CombinedStates

(***************************************************************************)
(* C15                                                                     *)
(***************************************************************************)
\* a response arrived and its status is not a success status
NonSuccess(r) == r.status # 0 /\ r.status \notin 200..299

\* C15: when a page of a fetchPaged call is answered with a non-success
\* status, the call rejects with a GiteaApiError that carries the status,
\* a message with the status and the body text (the status text when the
\* body is empty) and the URL that was requested; it does not return, and
\* the request of that page is the last request it issues.
C15_ErrorAborts ==
  \A k \in DOMAIN pgSeen :
    NonSuccess(pgSeen[k]) =>
      /\ k = Len(pgSeen)
      /\ Len(net) = k
      /\ pg.pc = "rejected"
      /\ pg.error.type = "GiteaApiError"
      /\ pg.error.status = pgSeen[k].status
      /\ pg.error.msgStatus = pgSeen[k].status
      /\ pg.error.detail = IF pgSeen[k].text # "" THEN pgSeen[k].text
                           ELSE pgSeen[k].statusText
      /\ pg.error.url = net[k].url
      /\ net[k].url.page = k

\* a call that had collected two full pages when the third was answered
\* with a non-success status and an empty body
C15_Witness ==
  /\ Len(pgSeen) = 3
  /\ NonSuccess(pgSeen[3])
  /\ pgSeen[3].text = ""
  /\ Len(pg.items) >= 2 * PER_PAGE
  /\ pg.pc = "rejected"

(***************************************************************************)
(* C16                                                                     *)
(***************************************************************************)
\* requests of repository discovery and per-repository pulls requests
ScanRequests ==
  {k \in 1..Len(net) :
     net[k].url.ep \notin {"pulls/created", "pulls/requested_review", "user"}}

\* the answer to the current-user request delivers no user: the fetch
\* threw, the status is not a success, or the body is no JSON or is null
NoUserIn(r) ==
  r.status = 0 \/ r.status \notin 200..299 \/ ~r.jsonOk \/ r.body = <<>>

\* C16: every repository-discovery and per-repository request of the call
\* comes after its current-user request and after an answer that delivered
\* a user; when the answer delivers none, the call rejects with the
\* identity error and issues no discovery and no per-repository request.
C16_IdentityFirst ==
  /\ \A k \in ScanRequests :
       /\ \E j \in 1..(k - 1) : net[j].url.ep = "user"
       /\ ib.userSeen # <<>> /\ ~NoUserIn(ib.userSeen[1])
       /\ ib.dbg.fallbackUsed = "true"
  /\ (ib.userSeen # <<>> /\ NoUserIn(ib.userSeen[1])) =>
       /\ ib.pc = "rejected"
       /\ ib.error.type = "Error"
       /\ ib.error.detail = "Could not determine current user"
       /\ ScanRequests = {}

\* a fallback whose current-user request was answered 401: the call has
\* rejected and the current-user request is the last request of the log
C16_Witness ==
  /\ ib.userSeen # <<>> /\ ib.userSeen[1].status = 401
  /\ ib.pc = "rejected"
  /\ ib.dbg.fallbackUsed = "true"
  /\ net[Len(net)].url.ep = "user"

\* a fallback that resolved the user and returned after scanning
C16_ScanAfterUser ==
  /\ ib.userSeen # <<>> /\ ~NoUserIn(ib.userSeen[1])
  /\ ib.pc = "returned"
  /\ ScanRequests # {}

(***************************************************************************)
(* C17                                                                     *)
(***************************************************************************)
\* the answers the search source has given, in order
SearchSeen == SelectSeq(frSeen, LAMBDA e : e.src = "search")

\* the search requests of the log
SearchRequests == {k \in 1..Len(net) : net[k].url.ep = "repos/search"}

\* the distinct ids the first k search answers delivered
SearchIds(k) ==
  UNION { {DeliveredRepos(SearchSeen[j])[i].id :
             i \in DOMAIN DeliveredRepos(SearchSeen[j])} : j \in 1..k }

\* the k-th search answer was a success that brought the accumulated ids
\* up to its total_count, or added no new id
SearchComplete(k) ==
  /\ Ok(SearchSeen[k].resp) /\ SearchSeen[k].resp.jsonOk
  /\ \/ /\ SearchSeen[k].resp.total # NoTotal
        /\ Cardinality(SearchIds(k)) >= SearchSeen[k].resp.total
     \/ SearchIds(k) = SearchIds(k - 1)

\* C17: once a search answer has brought the distinct repositories up to
\* total_count, or has added no new id, no further search page is
\* requested; a total_count of 150 served as 100 and then 50 distinct
\* repositories takes exactly two search requests and accumulates 150
\* repositories.
C17_SearchStops ==
  /\ \A k \in DOMAIN SearchSeen :
       SearchComplete(k) =>
         /\ k = Len(SearchSeen)
         /\ Cardinality(SearchRequests) = k
         /\ fr.phase # "search"
  /\ (/\ Len(SearchSeen) >= 2
      /\ SearchSeen[1].resp.total = 150 /\ Cardinality(SearchIds(1)) = 100
      /\ SearchSeen[2].resp.total = 150 /\ Cardinality(SearchIds(2)) = 150)
     => /\ Len(SearchSeen) = 2
        /\ Cardinality(SearchRequests) = 2
        /\ \A k \in SearchRequests : net[k].url.page = k
        /\ Cardinality({fr.repos[i].id : i \in DOMAIN fr.repos}) >= 150
        /\ \A i \in 1..150 : fr.repos[i].id \in SearchIds(2)

\* the search of 150 repositories in pages of 100 and 50 has ended and the
\* call has returned
C17_Witness ==
  /\ Len(SearchSeen) = 2
  /\ SearchSeen[1].resp.total = 150 /\ Cardinality(SearchIds(1)) = 100
  /\ SearchSeen[2].resp.total = 150 /\ Cardinality(SearchIds(2)) = 150
  /\ fr.phase = "returned"
  /\ Len(fr.repos) = 150

(***************************************************************************)
(* C18, C19                                                                *)
(***************************************************************************)
\* the answer is a failure of its endpoint: the fetch threw, the status is
\* not a success, or the body cannot be read as JSON
EndpointFailed(r) == r.status = 0 \/ r.status \notin 200..299 \/ ~r.jsonOk

\* the repositories the answers before position k delivered, by id
IdsBefore(k) ==
  UNION { {DeliveredRepos(frSeen[j])[i].id : i \in DOMAIN DeliveredRepos(frSeen[j])} :
            j \in 1..(k - 1) }

HeldIds == {fr.repos[i].id : i \in DOMAIN fr.repos}

\* C18: with a credential, a failure of the user-repos endpoint on any page
\* (non-success status, network error, unreadable body) does not make the
\* call fail: it goes on to list the organizations and keeps every
\* repository accumulated before the failure.
C18_Original ==
  \A k \in DOMAIN frSeen :
    (frSeen[k].src = "user" /\ EndpointFailed(frSeen[k].resp)) =>
      /\ fr.phase # "rejected"
      /\ \E j \in (k + 1)..Len(net) : net[j].url.ep = "orgs"
      /\ IdsBefore(k) \subseteq HeldIds

\* C18, for a non-success status only: the call goes on to the
\* organizations and keeps what it had.
C18_NonSuccessIsNotFatal ==
  \A k \in DOMAIN frSeen :
    (frSeen[k].src = "user" /\ frSeen[k].resp.status # 0
       /\ frSeen[k].resp.status \notin 200..299) =>
      /\ fr.phase # "rejected"
      /\ \E j \in (k + 1)..Len(net) : net[j].url.ep = "orgs"
      /\ IdsBefore(k) \subseteq HeldIds

\* a network error or an unreadable body of the user-repos endpoint makes
\* the call reject
C18_ThrownIsFatal ==
  \A k \in DOMAIN frSeen :
    (frSeen[k].src = "user"
       /\ (frSeen[k].resp.status = 0
             \/ (frSeen[k].resp.status \in 200..299 /\ ~frSeen[k].resp.jsonOk))) =>
      /\ fr.phase = "rejected"
      /\ k = Len(frSeen)
      /\ Len(net) = k

\* C19: a failure while listing the organizations or the repositories of
\* one organization (non-success status, network error, unreadable body)
\* never makes the call reject; a thrown failure ends the call at once,
\* and the call keeps every repository the search, the user-repos phase and
\* the organization pages before the failure delivered.
C19_OrgFailureSwallowed ==
  \A k \in DOMAIN frSeen :
    (frSeen[k].src \in {"orgs", "orgrepos"} /\ EndpointFailed(frSeen[k].resp)) =>
      /\ fr.phase # "rejected"
      /\ IdsBefore(k) \subseteq HeldIds
      /\ (frSeen[k].resp.status = 0 \/ ~frSeen[k].resp.jsonOk) =>
           /\ fr.phase = "returned"
           /\ k = Len(frSeen)
           /\ HeldIds = IdsBefore(k)

\* a call that returned repositories of the search, of the user-repos
\* phase and of an organization page although the next organization page
\* failed with a network error
C19_Witness ==
  /\ fr.phase = "returned"
  /\ Len(frSeen) >= 4
  /\ frSeen[Len(frSeen)].src = "orgrepos"
  /\ frSeen[Len(frSeen)].resp.status = 0
  /\ frSeen[Len(frSeen) - 1].src = "orgrepos"
  /\ DeliveredRepos(frSeen[Len(frSeen) - 1]) # <<>>
  /\ \E i \in DOMAIN fr.repos :
       fr.repos[i] \in SeqSet(DeliveredRepos(frSeen[Len(frSeen) - 1]))

(***************************************************************************)
(* SpecLifecycle: the inbox view with its refreshes, until and after it is *)
(* closed                                                                  *)
(***************************************************************************)
InitLifecycle ==
  /\ InitRefresh
  /\ cfg.cmd = "inbox"

NextLifecycle ==
  \/ NextRefresh
  \/ Unmount

SpecLifecycle == InitLifecycle /\ [][NextLifecycle]_vars

\* C20: once the inbox view is unmounted, no step changes the state of the
\* view: what settles afterwards is discarded.
C20_Original == [][view.stage = "unmounted" => view' = view]_vars

(***************************************************************************)
(* C21                                                                     *)
(***************************************************************************)
\* the page requests of the call that have no response yet
PagesInFlight == Len(net) - Len(pgSeen)

\* C21: the k-th request of a fetchPaged call is the request of page k, at
\* most one request is without its response in any state, a request is
\* pending exactly while the call awaits, and a new request is issued only
\* in the step that receives the response to the previous one, after the
\* items of that response have been appended.
C21_Sequential ==
  /\ PagesInFlight \in {0, 1}
  /\ \A k \in DOMAIN net : net[k].url.page = k
  /\ (pg.pc = "await") <=> (PagesInFlight = 1)
  /\ pg.pc = "await" =>
       /\ pg.page = Len(pgSeen) + 1
       /\ pg.items = ConcatPages(pgSeen)
       /\ \A k \in DOMAIN pgSeen : Len(pgSeen[k].body) >= PER_PAGE

\* the call has consumed two full pages and awaits the third
C21_Witness ==
  /\ pg.pc = "await"
  /\ Len(net) = 3
  /\ Len(pgSeen) = 2
  /\ Len(pg.items) >= 2 * PER_PAGE

(***************************************************************************)
(* SpecFormat: formatStatus, applied to the entry of a pull request in     *)
(* statusById                                                              *)
(***************************************************************************)
\* a label: its emoji, by name, and the words after it
Label(icon, words) == [icon |-> icon, words |-> words]

\* String.prototype.toLowerCase on the state strings of the model
toLowerCase(s) ==
  CASE s = "SUCCESS" -> "success"
    [] s = "Failure" -> "failure"
    [] s = "PENDING" -> "pending"
    [] s = "Error" -> "error"
    [] OTHER -> s

\* statusById[pull.id]: undefined when the map has no entry for the id
Lookup(statusById, id) ==
  IF id \in DOMAIN statusById THEN [defined |-> TRUE, s |-> statusById[id]]
  ELSE [defined |-> FALSE, s |-> ""]

\* formatStatus(state): normalized = (state ?? "").toLowerCase()
formatStatus(state) ==
  LET normalized == IF state.defined THEN toLowerCase(state.s) ELSE ""
  IN  CASE normalized = "success" -> Label("check mark button", "passed")
        [] normalized = "failure" -> Label("cross mark", "failed")
        [] normalized = "pending" -> Label("hourglass not done", "pending")
        [] normalized = "error" -> Label("warning", "error")
        [] OTHER -> Label("white circle", "unknown")

\* the state strings a status map can hold
StateStrings ==
  {"success", "failure", "pending", "error", "unknown", "warning", "",
   "SUCCESS", "Failure", "PENDING", "Error"}

\* the ids of the pull requests shown, and the ids a status map has
ShownIds == {1, 2, 3}
MappedIds == {{}, {1}, {2}, {1, 2}}

InitFormat ==
  /\ net = <<>>
  /\ srv = "format"
  /\ pg = fetchPagedIdle
  /\ pgSeen = <<>>
  /\ fr = fetchAllReposIdle
  /\ frSeen = <<>>
  /\ InboxIdle
  /\ en = enrichIdle
  /\ RefreshIdle
  /\ \E ids \in MappedIds, id \in ShownIds :
       \E statusById \in [ids -> StateStrings] :
         ev = [pc |-> "in", statusById |-> statusById, id |-> id,
               state |-> Lookup(statusById, id), label |-> Label("", "")]

\* the list item of the pull request is rendered:
\* const checks = formatStatus(statusById[pull.id])
FormatStatus ==
  /\ ev.pc = "in"
  /\ ev' = [ev EXCEPT !.pc = "out", !.label = formatStatus(ev.state)]
  /\ UNCHANGED <<en, net, srv, pagedVars, reposVars, inboxVars, refreshVars>>

NextFormat == FormatStatus

SpecFormat == InitFormat /\ [][NextFormat]_vars

\* the labels the claim gives for the five combined check states
ChecksLabel(s) ==
  CASE s = "success" -> Label("check mark button", "checks passed")
    [] s = "failure" -> Label("cross mark", "checks failed")
    [] s = "pending" -> Label("hourglass not done", "checks pending")
    [] s = "error" -> Label("warning", "checks error")
    [] s = "unknown" -> Label("white circle", "checks unknown")

\* C22: formatStatus maps success to "checks passed", failure to "checks
\* failed", pending to "checks pending", error to "checks error" and
\* unknown to "checks unknown", each after its emoji.
C22_Original ==
  (ev.pc = "out" /\ ev.state.defined /\ ev.state.s \in CombinedStates) =>
    ev.label = ChecksLabel(ev.state.s)

\* what formatStatus returns for the five states: the emoji of the claim,
\* followed by passed, failed, pending, error and unknown
C22_ShortLabels ==
  (ev.pc = "out" /\ ev.state.defined /\ ev.state.s \in CombinedStates) =>
    /\ ev.label.icon = ChecksLabel(ev.state.s).icon
    /\ ev.label.words =
         CASE ev.state.s = "success" -> "passed"
           [] ev.state.s = "failure" -> "failed"
           [] OTHER -> ev.state.s

(***************************************************************************)
(* C23                                                                     *)
(***************************************************************************)
\* The k-th answer answers the k-th request.  The answer is a page of its
\* source with fewer than 100 items.
ShortRepoPage(k) ==
  /\ frSeen[k].src \in {"search", "user", "orgrepos"}
  /\ Ok(frSeen[k].resp) /\ frSeen[k].resp.jsonOk
  /\ Len(DeliveredRepos(frSeen[k])) < 100

\* request k + 1 asks the source of request k for its next page
NextPageRequested(k) ==
  /\ Len(net) > k
  /\ net[k + 1].url.ep = net[k].url.ep
  /\ net[k + 1].url.owner = net[k].url.owner
  /\ net[k + 1].url.page = net[k].url.page + 1

\* C23: after a page of the search, of the user repos or of the repos of
\* an organization with fewer than 100 items, the next page of that source
\* is not requested.
C23_Original ==
  \A k \in DOMAIN frSeen : ShortRepoPage(k) => ~NextPageRequested(k)

\* what ends a source: an empty page, a page without a new id, or for the
\* search, the total_count being reached
C23_StopsWithoutNewIds ==
  \A k \in DOMAIN frSeen :
    (/\ frSeen[k].src \in {"search", "user", "orgrepos"}
     /\ Ok(frSeen[k].resp) /\ frSeen[k].resp.jsonOk
     /\ {DeliveredRepos(frSeen[k])[i].id : i \in DOMAIN DeliveredRepos(frSeen[k])}
          \subseteq IdsBefore(k))
    => ~NextPageRequested(k)

(***************************************************************************)
(* SpecMap: mapWithConcurrency over any items, with any concurrency and a  *)
(* callback whose promises settle in any order                             *)
(***************************************************************************)
MaxItems == 4
MaxConcurrency == 5

\* fn(items[idx], idx) as the caller sees it: what it was given
FnResult(item, idx) == [set |-> TRUE, of |-> item, at |-> idx]

\* a slot of `new Array(items.length)` nothing was stored in
EmptySlot == [set |-> FALSE, of |-> "", at |-> -1]

\* A call M gathers items, nextIndex and results, which the workers share,
\* each worker's position (awaiting the callback of the index it holds, or
\* returned), the number of times fn was called on each index, and whether
\* the worker loop is being created (pc "spawn") or awaited (pc "running").

\* a worker that reads nextIndex while the pool is created and advances it
\* only once every worker has started
mapWorkerClaimLateAdvance(M, w) ==
  LET idx == M.nextIndex
      T == [M EXCEPT !.nextIndex = IF M.pc = "spawn" THEN idx ELSE idx + 1]
  IN  IF idx >= Len(M.items)
        THEN [T EXCEPT !.workers[w] = [pc |-> "done", idx |-> idx]]
        ELSE [T EXCEPT !.workers[w] = [pc |-> "await", idx |-> idx],
                       !.calls[idx + 1] = M.calls[idx + 1] + 1]

\* const idx = nextIndex++; if (idx >= items.length) return;
\* ... await fn(items[idx], idx): worker w runs to its next await
mapWorkerClaim(M, w) ==
  LET idx == M.nextIndex
      T == [M EXCEPT !.nextIndex = idx + 1]
  IN  IF idx >= Len(M.items)
        THEN [T EXCEPT !.workers[w] = [pc |-> "done", idx |-> idx]]
        ELSE [T EXCEPT !.workers[w] = [pc |-> "await", idx |-> idx],
                       !.calls[idx + 1] = M.calls[idx + 1] + 1]

\* Array.from({ length }, () => worker()): workers w..size start in turn
RECURSIVE mapSpawn(_, _)
mapSpawn(M, w) ==
  IF w > Len(M.workers) THEN M ELSE mapSpawn(mapWorkerClaim(M, w), w + 1)

\* await Promise.all(workers); return results
mapReturn(M) ==
  IF \A w \in DOMAIN M.workers : M.workers[w].pc = "done"
    THEN [M EXCEPT !.pc = "returned"]
    ELSE [M EXCEPT !.pc = "running"]

\* mapWithConcurrency(items, concurrency, fn) up to the first await
mapCall(items, concurrency) ==
  LET size == PoolSize(Len(items), concurrency) IN
    mapReturn(mapSpawn([pc |-> "spawn", items |-> items, concurrency |-> concurrency,
                        nextIndex |-> 0,
                        results |-> [k \in 1..Len(items) |-> EmptySlot],
                        workers |-> [w \in 1..size |-> [pc |-> "new", idx |-> -1]],
                        calls |-> [k \in 1..Len(items) |-> 0]], 1))

\* results[idx] = (the settled value); the worker loops
mapSettle(M, w) ==
  LET idx == M.workers[w].idx IN
    mapReturn(mapWorkerClaim(
      [M EXCEPT !.results[idx + 1] = FnResult(M.items[idx + 1], idx)], w))

Items == UNION {[1..n -> {"a", "b"}] : n \in 0..MaxItems}

InitMap ==
  /\ net = <<>>
  /\ srv = "map"
  /\ pg = fetchPagedIdle
  /\ pgSeen = <<>>
  /\ fr = fetchAllReposIdle
  /\ frSeen = <<>>
  /\ InboxIdle
  /\ en = enrichIdle
  /\ RefreshIdle
  /\ \E items \in Items, concurrency \in (-1)..MaxConcurrency :
       ev = [pc |-> "in", items |-> items, concurrency |-> concurrency]

\* the function is called
MapCall ==
  /\ ev.pc = "in"
  /\ ev' = mapCall(ev.items, ev.concurrency)
  /\ UNCHANGED <<en, net, srv, pagedVars, reposVars, inboxVars, refreshVars>>

\* the callback a worker awaits resolves
MapSettle ==
  /\ ev.pc = "running"
  /\ \E w \in DOMAIN ev.workers :
       /\ ev.workers[w].pc = "await"
       /\ ev' = mapSettle(ev, w)
  /\ UNCHANGED <<en, net, srv, pagedVars, reposVars, inboxVars, refreshVars>>

NextMap == MapCall \/ MapSettle

SpecMap == InitMap /\ [][NextMap]_vars

\* the workers awaiting the callback of index idx
Holders(idx) ==
  {w \in DOMAIN ev.workers : ev.workers[w].pc = "await" /\ ev.workers[w].idx = idx}

NewWriteBack(next) == [pc |-> "load", next |-> next, cached |-> NoCached]

\* loadCachedInbox(baseUrl).then((cached) => { if (!cached.payload) return;
\* ...: the read resolves with what cache c holds
writeBackLoaded(W, c) ==
  LET cached == loadCachedInbox(c) IN
    IF cached.present THEN [W EXCEPT !.pc = "save", !.cached = cached]
                      ELSE [W EXCEPT !.pc = "done"]

\* the write-backs in flight once the one at place k has ended
Without(wb, k) == [j \in 1..(Len(wb) - 1) |-> IF j < k THEN wb[j] ELSE wb[j + 1]]

\* saveCachedInbox(baseUrl, { ...cached.payload, statusById: next }) at
\* clock reading nowMs
writeBackSave(W, nowMs) ==
  saveCachedInbox(InboxPayload(W.cached.payload.created,
                               W.cached.payload.reviewRequested,
                               StatusById(W.next)), nowMs)

\* the lists a payload stores
StoredLists(payload) ==
  [created |-> payload.created, reviewRequested |-> payload.reviewRequested]

\* what the view's live fetches can return, and one failure
ViewOutcomes(accessToken) ==
  { LiveReturned(InboxPayload(<<Pulls.full>>, <<>>, NoStatus), "global"),
    LiveReturned(InboxPayload(<<Pulls.base>>, <<>>, NoStatus), "global"),
    LiveRejected(GiteaApiError(500, "Internal Server Error",
                               ApiUrl(CreatedUrl, 1, accessToken)), "global") }

\* what an earlier run left: nothing, or the lists a live fetch saved an
\* hour and more ago, or a millisecond ago
ViewCaches ==
  { NoCache,
    saveCachedInbox(InboxPayload(<<Pulls.noSha>>, <<>>, NoStatus), Epoch - 3600000),
    saveCachedInbox(InboxPayload(<<Pulls.noSha>>, <<>>, NoStatus), Epoch - 1) }

ViewStatusResponses == { StatusBody("success"), HttpError(404, "Not Found", "") }

\* ev keeps the write-backs in flight, whether the lists were set since the
\* effect last ran, and the history the properties read: saves, the time and
\* lists of every save of a live fetch; last, what a refresh or a clear last
\* did to the cache; settled, the successful refreshes in the order in which
\* they settled.
InitView ==
  /\ net = <<>>
  /\ srv = "view"
  /\ pg = fetchPagedIdle
  /\ pgSeen = <<>>
  /\ fr = fetchAllReposIdle
  /\ frSeen = <<>>
  /\ InboxIdle
  /\ en = enrichIdle
  /\ cfg = [cmd |-> "inbox", baseUrl |-> 1, accessToken |-> "tok-abcdefgh-1234",
            ttlPref |-> [nan |-> TRUE, n |-> 0]]
  /\ cache \in ViewCaches
  /\ now = Epoch
  /\ ticks = 0
  /\ view = viewInit
  /\ rfs = <<>>
  /\ LET cached == loadCachedInbox(cache) IN
       ev = [pc |-> "view", wb |-> <<>>, dirty |-> FALSE,
             saves |-> IF cached.present
                         THEN {[at |-> cached.timestamp,
                                lists |-> StoredLists(cached.payload)]}
                         ELSE {},
             last |-> IF cached.present
                        THEN [kind |-> "save", lists |-> StoredLists(cached.payload)]
                        ELSE [kind |-> "none", lists |-> StoredLists(NoPayload)],
             settled |-> <<>>]

\* the effects of a render run before the next event is handled
EffectsFlushed == ~ev.dirty

\* the settings have loaded: the mount effect calls refreshInbox(false) and
\* the enrichment effect is due
ViewMount ==
  /\ view.stage = "init"
  /\ CallRefresh([view EXCEPT !.stage = "mounted"], cache, FALSE,
                 cfg.baseUrl, cfg.accessToken)
  /\ ev' = [ev EXCEPT !.dirty = TRUE]
  /\ UNCHANGED <<en, cfg, now, ticks, srv, pagedVars, reposVars, inboxVars>>

\* the Refresh action of a list item, whatever else is in progress
ViewRefresh ==
  /\ EffectsFlushed
  /\ ListShown
  /\ view.created # <<>> \/ view.reviewRequested # <<>>
  /\ Calls < MaxRefreshes
  /\ CallRefresh(view, cache, TRUE, cfg.baseUrl, cfg.accessToken)
  /\ UNCHANGED <<ev, en, cfg, now, ticks, srv, pagedVars, reposVars, inboxVars>>

\* the Clear Cache action of a list item, whatever else is in progress
ViewClearCache ==
  /\ EffectsFlushed
  /\ ListShown
  /\ view.created # <<>> \/ view.reviewRequested # <<>>
  /\ Calls < MaxRefreshes
  /\ CallRefresh(view, clearCache, TRUE, cfg.baseUrl, cfg.accessToken)
  /\ ev' = [ev EXCEPT !.last = [kind |-> "clear", lists |-> StoredLists(NoPayload)]]
  /\ UNCHANGED <<en, cfg, now, ticks, srv, pagedVars, reposVars, inboxVars>>

\* the cache read of a refresh resolves; cached lists are set
ViewLoaded ==
  /\ EffectsFlushed
  /\ \E k \in DOMAIN rfs :
       /\ rfs[k].pc = "load"
       /\ SetFrame(refreshInboxLoaded(Frame(k), cacheTtlMinutes(cfg.ttlPref), now), k)
       /\ ev' = [ev EXCEPT !.dirty = @ \/ loadCachedInbox(cache).present]
  /\ UNCHANGED <<en, cfg, now, ticks, srv, pagedVars, reposVars, inboxVars>>

\* the live fetch of a refresh settles, a millisecond after the last event
ViewLiveSettled ==
  /\ EffectsFlushed
  /\ \E k \in DOMAIN rfs :
       /\ rfs[k].pc = "fetch"
       /\ \E o \in ViewOutcomes(rfs[k].accessToken) :
            LET F == [Frame(k) EXCEPT !.r.settledAt = now + 1] IN
              IF o.ok
                THEN /\ SetFrame(refreshInboxSucceeded(F, o, now + 1), k)
                     /\ ev' = [ev EXCEPT
                          !.dirty = TRUE,
                          !.saves = @ \cup {[at |-> now + 1, lists |-> StoredLists(o.payload)]},
                          !.last = [kind |-> "save", lists |-> StoredLists(o.payload)],
                          !.settled = Append(@, [no |-> rfs[k].no,
                                                 lists |-> StoredLists(o.payload)])]
                ELSE /\ SetFrame(refreshInboxFailed(F, o), k)
                     /\ ev' = ev
  /\ now' = now + 1
  /\ UNCHANGED <<en, cfg, ticks, srv, pagedVars, reposVars, inboxVars>>

\* the save or the toast a refresh awaits resolves: finally
ViewRefreshSettled ==
  /\ EffectsFlushed
  /\ \E k \in DOMAIN rfs :
       /\ rfs[k].pc \in {"save", "toast"}
       /\ SetFrame(refreshFinally(Frame(k)), k)
  /\ UNCHANGED <<ev, en, cfg, now, ticks, srv, pagedVars, reposVars, inboxVars>>

\* a run of the effect whose statuses are all there hands its write-back
\* over
HandOver(E, wb) ==
  IF E.en.pc = "load"
    THEN [en |-> [E.en EXCEPT !.pc = "done"], wb |-> Append(wb, NewWriteBack(E.en.next))]
    ELSE [en |-> E.en, wb |-> wb]

\* the lists were set: the cleanup of the previous run of the enrichment
\* effect, then the effect
ViewEffect ==
  /\ ev.dirty
  /\ enrichGuard(view, cfg.baseUrl, cfg.accessToken)
  /\ LET E == enrichStart([view |-> view, cache |-> cache, en |-> enrichIdle,
                           reqs |-> <<>>], cfg.accessToken, Len(net))
         H == HandOver(E, ev.wb)
     IN  /\ view' = E.view
         /\ en' = H.en
         /\ net' = net \o E.reqs
         /\ ev' = [ev EXCEPT !.dirty = FALSE, !.wb = H.wb]
  /\ UNCHANGED <<cache, rfs, cfg, now, ticks, srv, pagedVars, reposVars, inboxVars>>

\* a commit-status request of the current run of the effect settles, a
\* millisecond after the last event
ViewStatusRespond ==
  /\ EffectsFlushed
  /\ en.pc = "fetching"
  /\ \E i \in DOMAIN en.results, r \in ViewStatusResponses :
       /\ ~en.results[i].settled
       /\ LET E == enrichRespond([view |-> view, cache |-> cache, en |-> en,
                                  reqs |-> <<>>], i, r)
              H == HandOver(E, ev.wb)
          IN  /\ view' = E.view
              /\ en' = H.en
              /\ ev' = [ev EXCEPT !.wb = H.wb]
  /\ now' = now + 1
  /\ UNCHANGED <<net, cache, rfs, cfg, ticks, srv, pagedVars, reposVars, inboxVars>>

\* the cache read of a write-back resolves
ViewWriteBackLoaded ==
  /\ EffectsFlushed
  /\ \E k \in DOMAIN ev.wb :
       /\ ev.wb[k].pc = "load"
       /\ LET W == writeBackLoaded(ev.wb[k], cache) IN
            ev' = [ev EXCEPT !.wb = IF W.pc = "done" THEN Without(@, k)
                                    ELSE [@ EXCEPT ![k] = W]]
  /\ UNCHANGED <<en, net, cache, view, rfs, cfg, now, ticks, srv, pagedVars, reposVars,
                 inboxVars>>

\* a write-back saves
ViewWriteBackSaved ==
  /\ EffectsFlushed
  /\ \E k \in DOMAIN ev.wb :
       /\ ev.wb[k].pc = "save"
       /\ cache' = writeBackSave(ev.wb[k], now)
       /\ ev' = [ev EXCEPT !.wb = Without(@, k)]
  /\ UNCHANGED <<en, net, view, rfs, cfg, now, ticks, srv, pagedVars, reposVars,
                 inboxVars>>

NextView ==
  \/ ViewMount
  \/ ViewRefresh
  \/ ViewClearCache
  \/ ViewLoaded
  \/ ViewLiveSettled
  \/ ViewRefreshSettled
  \/ ViewEffect
  \/ ViewStatusRespond
  \/ ViewWriteBackLoaded
  \/ ViewWriteBackSaved

SpecView == InitView /\ [][NextView]_vars

(***************************************************************************)
(* C25 - C27: the cache and the lists under overlapping work               *)
(***************************************************************************)
\* C25: the time the inbox cache stores is the save time of the live fetch
\* that produced the lists it stores (it is written only when a live fetch
\* succeeded).
C25_Original ==
  LET cached == loadCachedInbox(cache) IN
    cached.present =>
      [at |-> cached.timestamp, lists |-> StoredLists(cached.payload)] \in ev.saves

\* the stored time is never earlier than the save of the live fetch that
\* produced the stored lists: a write-back only moves it forward
C25_TimeNotBeforeFetch ==
  LET cached == loadCachedInbox(cache) IN
    cached.present =>
      \E h \in ev.saves : /\ h.lists = StoredLists(cached.payload)
                          /\ h.at <= cached.timestamp

\* C26: after a refresh has saved lists L the cache holds L until the next
\* refresh save or clear, and after a clear it stays empty until the next
\* refresh save, whatever write-backs interleave.
C26_Original ==
  LET cached == loadCachedInbox(cache) IN
    /\ ev.last.kind = "save" =>
         cached.present /\ StoredLists(cached.payload) = ev.last.lists
    /\ ev.last.kind = "clear" => cache = NoCache

\* a write-back stores the lists it read
C26_WriteBackStoresWhatItRead ==
  [][\A k \in DOMAIN ev.wb :
       (ev.wb[k].pc = "save" /\ cache' = writeBackSave(ev.wb[k], now)) =>
         StoredLists(cache'.data.val) = StoredLists(ev.wb[k].cached.payload)]_vars

\* the successful refresh that was started last
LastStarted ==
  CHOOSE h \in {ev.settled[j] : j \in DOMAIN ev.settled} :
    \A j \in DOMAIN ev.settled : ev.settled[j].no <= h.no

\* C27: once two refreshes of the view have both succeeded and returned,
\* the lists shown and the lists cached are those of the one started last.
C27_Original ==
  (Quiet /\ Len(ev.settled) = 2) =>
    /\ StoredLists(view) = LastStarted.lists
    /\ StoredLists(loadCachedInbox(cache).payload) = LastStarted.lists

\* the lists shown are those of the refresh that settled last
C27_LastSettledWins ==
  (Quiet /\ ev.settled # <<>>) =>
    StoredLists(view) = ev.settled[Len(ev.settled)].lists

(***************************************************************************)
(* C28: what the debug info of the inbox shows of the access token         *)
(***************************************************************************)
\* the characters of the access tokens the runs use
Characters(token) ==
  IF token = "tok-abcdefgh-1234"
    THEN <<"t", "o", "k", "-", "a", "b", "c", "d", "e", "f", "g", "h", "-",
           "1", "2", "3", "4">>
    ELSE <<>>

\* if (!token) return "(empty)"; if (token.length <= 8) return "********";
\* return `${token.slice(0, 4)}...${token.slice(-4)}` ("ellipsis" stands for
\* the one character between the two slices)
redactToken(token) ==
  LET c == Characters(token)
      n == Len(c)
  IN  IF n = 0 THEN <<"(empty)">>
      ELSE IF n <= 8 THEN <<"********">>
      ELSE SubSeq(c, 1, 4) \o <<"ellipsis">> \o SubSeq(c, n - 3, n)

\* toDebugError(err): a GiteaApiError gives { type, status, message, url },
\* any other Error { type, message }
toDebugError(err) ==
  [type |-> err.type, status |-> err.status, msgStatus |-> err.msgStatus,
   detail |-> err.detail,
   url |-> IF err.type = "GiteaApiError" THEN err.url ELSE NoUrl]

\* debugMarkdown once fetchPullRequestInbox has settled as i: the
\* accessToken line, the Errors section (debugInfo.errors) and the Last
\* Error section (toDebugError(lastError), "- (none)" without an error)
debugMarkdown(i) ==
  [accessToken |-> redactToken(i.token),
   errors |-> i.dbg.errors,
   lastError |-> IF i.pc = "rejected" THEN toDebugError(i.error)
                                      ELSE toDebugError(NoError)]

\* the text shows the whole token: on its accessToken line, or as the token
\* parameter of a URL it prints
ShowsToken(md, token) ==
  \/ md.accessToken = Characters(token)
  \/ \E k \in DOMAIN md.errors : md.errors[k].url.token = token
  \/ md.lastError.url.token = token

\* C28: the debug info of a settled inbox fetch never shows the whole access
\* token, only its redacted form.
C28_Original ==
  ib.pc \in {"returned", "rejected"} => ~ShowsToken(debugMarkdown(ib), ib.token)

\* the accessToken line is the redacted token, and only URLs of failed
\* requests carry the whole token
C28_TokenLineRedacted ==
  ib.pc \in {"returned", "rejected"} =>
    /\ debugMarkdown(ib).accessToken = <<"t", "o", "k", "-", "ellipsis", "1", "2", "3", "4">>
    /\ ShowsToken(debugMarkdown(ib), ib.token) =>
         \/ debugMarkdown(ib).lastError.type = "GiteaApiError"
         \/ \E k \in DOMAIN ib.dbg.errors : ib.dbg.errors[k].type = "GiteaApiError"

(***************************************************************************)
(* SpecSamePage: fetchAllRepos against servers that ignore `page`: each    *)
(* endpoint answers every page number with the same page, the first        *)
(* PER_PAGE of the items it has                                            *)
(***************************************************************************)
MaxSamePages == 3

\* how many repositories a repository endpoint of such a server shows on
\* every page (the organization listing shows none, one, or a full page)
SameSizes == {0, 2}

\* a server: the number of items each endpoint returns on every page
SamePageServers ==
  [search : SameSizes, user : SameSizes, orgs : {0, 1, PER_PAGE}, orgrepos : SameSizes]

\* the one answer the server gives to the pending request, whatever its page
SamePageResponse(server, f, tag) ==
  CASE f.phase = "search"   -> SearchOk(RepoPage(1, server.search, tag), NoTotal)
    [] f.phase = "user"     -> OkArray(RepoPage(51, server.user, tag))
    [] f.phase = "orgs"     -> OkArray([i \in 1..server.orgs |-> Org(i, 0)])
    [] f.phase = "orgrepos" ->
         OkArray(RepoPage(1000 * OrgName(f.allOrgs[f.orgIdx]), server.orgrepos, tag))

InitSamePage ==
  /\ net = <<>>
  /\ srv \in SamePageServers
  /\ fr = fetchAllReposIdle
  /\ frSeen = <<>>
  /\ pg = fetchPagedIdle
  /\ pgSeen = <<>>
  /\ InboxIdle
  /\ ExtraIdle
  /\ RefreshIdle

\* the pending fetch settles with the server's answer and the call runs on;
\* no source is asked for a page beyond MaxSamePages
SamePageRespond ==
  /\ FrAwaiting(fr)
  /\ LET r == SamePageResponse(srv, fr, Len(net))
         f == fetchAllReposBody(fr, r)
     IN  /\ FrAwaiting(f) => f.page <= MaxSamePages
         /\ fr' = f
         /\ frSeen' = Append(frSeen, [src |-> fr.phase, resp |-> r])
         /\ net' = IF FrAwaiting(f) THEN Append(net, fetchAllReposRequest(f)) ELSE net
  /\ UNCHANGED <<srv, extraVars, refreshVars, pagedVars, inboxVars>>

NextSamePage == ReposCall \/ SamePageRespond

\* the call is made, and every request is answered
SpecSamePage ==
  InitSamePage /\ [][NextSamePage]_vars /\ WF_vars(NextSamePage)

C29_RepoSourcesStop ==
  fr.phase \in {"search", "user", "orgrepos"} => fr.page <= 2

\* the organization listing asks for the next page after every full page,
\* although the page brought no organization it did not have
C29_OrgListingGoesOn ==
  [][(fr.phase = "orgs" /\ srv.orgs = PER_PAGE) =>
       (fr'.phase = "orgs" /\ fr'.page = fr.page + 1
        /\ Len(fr'.allOrgs) = Len(fr.allOrgs) + PER_PAGE)]_vars

(***************************************************************************)
(* SpecUsage: the usage map of the repositories command: its load when the *)
(* view mounts, and the recordings                                         *)
(***************************************************************************)
MaxRecordings == 3

\* the repositories a recording can name
UsageRepos == {1, 2, 3}

\* a usage map: repository id to the time of the last recording
EmptyUsage == <<>>

\* what an earlier run of the command left under USAGE_KEY
StoredUsages ==
  { EmptyUsage, (1 :> Epoch - 5000), (1 :> Epoch - 5000) @@ (2 :> Epoch - 60000) }

\* loadUsage(): the stored map, {} when nothing is stored
loadUsage(stored) == stored

\* a recording that starts from the stored map and not from the state
handleRecordUsageFromStored(u, repoId, nowMs) ==
  LET next == (repoId :> nowMs) @@ u.stored
  IN  [u EXCEPT !.usage = next, !.stored = next]

\* const next = { ...usage, [key]: Date.now() }; setUsage(next);
\* await saveUsage(next)
handleRecordUsage(u, repoId, nowMs) ==
  LET next == (repoId :> nowMs) @@ u.usage
  IN  [u EXCEPT !.usage = next, !.stored = next]

\* ev holds usage, the state of the view; stored, the map under USAGE_KEY;
\* load, how far the load of the mount effect has come, with reply what its
\* read returned; and the number of recordings made.
InitUsage ==
  /\ net = <<>>
  /\ srv = "usage"
  /\ pg = fetchPagedIdle
  /\ pgSeen = <<>>
  /\ fr = fetchAllReposIdle
  /\ frSeen = <<>>
  /\ InboxIdle
  /\ en = enrichIdle
  /\ cfg = [cmd |-> "repos", baseUrl |-> 1, accessToken |-> "",
            ttlPref |-> [nan |-> TRUE, n |-> 0]]
  /\ cache = NoCache
  /\ now = Epoch
  /\ ticks = 0
  /\ view = [viewInit EXCEPT !.stage = "mounted"]
  /\ rfs = <<>>
  /\ \E stored \in StoredUsages :
       ev = [pc |-> "usage", usage |-> EmptyUsage, stored |-> stored,
             load |-> "pending", reply |-> EmptyUsage, count |-> 0]

\* LocalStorage.getItem of loadUsage() reads the item
UsageLoadServed ==
  /\ ev.pc = "usage"
  /\ ev.load = "pending"
  /\ ev' = [ev EXCEPT !.load = "served", !.reply = loadUsage(ev.stored)]
  /\ UNCHANGED <<en, net, srv, pagedVars, reposVars, inboxVars, refreshVars>>

\* loadUsage().then(setUsage)
UsageLoadResolved ==
  /\ ev.pc = "usage"
  /\ ev.load = "served"
  /\ ev' = [ev EXCEPT !.load = "done", !.usage = ev.reply]
  /\ UNCHANGED <<en, net, srv, pagedVars, reposVars, inboxVars, refreshVars>>

\* the user opens repository repoId, a millisecond or more after the last
\* event; the view has rendered since, so the callback sees the state
RecordUsageOf(repoId) ==
  /\ ev.pc = "usage"
  /\ ev.count < MaxRecordings
  /\ ev' = [handleRecordUsage(ev, repoId, now + 1) EXCEPT !.count = ev.count + 1]
  /\ now' = now + 1
  /\ UNCHANGED <<en, net, srv, pagedVars, reposVars, inboxVars, cfg, cache, ticks,
                 view, rfs>>

RecordUsage == \E repoId \in UsageRepos : RecordUsageOf(repoId)

NextUsage == UsageLoadServed \/ UsageLoadResolved \/ RecordUsage

SpecUsage == InitUsage /\ [][NextUsage]_vars

\* map m2 is map m1 with the entry of key set to t and every other entry as
\* it was
OnlyEntrySet(m1, m2, key, t) ==
  /\ DOMAIN m2 = DOMAIN m1 \cup {key}
  /\ m2[key] = t
  /\ \A k \in DOMAIN m1 \ {key} : m2[k] = m1[k]

\* C30: a recording of r sets the entry of r to the current time and leaves
\* every other entry of the in-memory map and of the persisted map as it
\* was, whenever it runs relative to the load and to other recordings.
C30_Original ==
  [][\A repoId \in UsageRepos :
       RecordUsageOf(repoId) =>
         /\ OnlyEntrySet(ev.usage, ev'.usage, repoId, now')
         /\ OnlyEntrySet(ev.stored, ev'.stored, repoId, now')]_vars

\* a recording keeps the other entries of both maps when the state and the
\* stored map agree, and it always keeps those of the state
C30_KeepsWhenInStep ==
  [][\A repoId \in UsageRepos :
       RecordUsageOf(repoId) =>
         /\ OnlyEntrySet(ev.usage, ev'.usage, repoId, now')
         /\ ev.usage = ev.stored =>
              OnlyEntrySet(ev.stored, ev'.stored, repoId, now')]_vars

====
